---- MODULE Spec2Model ----
(***************************************************************************)
(* State machines of the flow crate's operator-local state:                *)
(*   - DiffMap                 (src/flow/src/hydro_compute/utils.rs)       *)
(*   - ExpiringKeyValueState   (src/flow/src/hydro_compute/render/state.rs)*)
(*   - TemporalFilterState     (src/flow/src/hydro_compute/render/state.rs)*)
(*   - Accum and its variants  (src/flow/src/expr/relation/accum.rs)       *)
(*   - render_source, render_sink (src/flow/src/compute/render/src_sink.rs)*)
(* and the client's Error    (src/client/src/error.rs).                    *)
(* Each structure has its own specification (SpecDiffMap, SpecExpiring,    *)
(* SpecTemporal, SpecAccum, SpecSource, SpecSink, SpecClient); the         *)
(* variables of the other structures are held at their initial values.     *)
(***************************************************************************)
EXTENDS Integers, Sequences, FiniteSets, TLC

VARIABLES
    dmap,        \* DiffMap: [inner, delta]
    dm_last,     \* the last DiffMap call: its arguments, result and pre-state
    dm_prev,     \* history: `inner` as it was at the previous gen_diff
    dm_edited,   \* history: per key, the number of insert/remove calls since the previous gen_diff
    dm_emitted,  \* history: per (key, value), the sum of the diffs of all records emitted so far
    dm_steps     \* number of DiffMap calls made

VARIABLES
    ekv,         \* ExpiringKeyValueState: [inner, time2key, key_expiration_duration, event_timestamp_from_row]
    ekv_last,    \* the last ExpiringKeyValueState call: its arguments, result and pre-state
    ekv_steps    \* number of ExpiringKeyValueState calls made

VARIABLES
    tfs,         \* TemporalFilterState: [spine]
    tfs_last,    \* the last TemporalFilterState call: its arguments, result and pre-state
    tfs_order,   \* history: per timestamp, the rows of the bucket in the order their entries were created
    tfs_sum,     \* history: per (time, row), the sum of the diffs appended since the bucket was last returned
    tfs_run,     \* history: the current run of trunc_until_inclusive calls with strictly increasing times
    tfs_steps    \* number of TemporalFilterState calls made

VARIABLES
    acc_fn,       \* Accum: the aggregate function (aggr_fn) the accumulator was made for
    acc,          \* Accum: the accumulator
    acc_last,     \* the last Accum call: its arguments, result and pre-state
    acc_restored, \* history: the accumulator has been rebuilt from a state at least once
    acc_sums,     \* history: per value, the sum of the diffs of the successful updates with it
    acc_seen,     \* history: the values of the successful updates
    acc_steps     \* number of Accum calls made

VARIABLES
    src_now,     \* compute_state.current_time of the worker
    src_arr,     \* the arrangement of the source: the updates it holds, as (key, time, diff)
    src_chan,    \* the source broadcast: the values the receiver src_recv has still to receive
    src_missed,  \* the source broadcast: the number of values src_recv lost to overwriting, not yet reported
    src_closed,  \* the source broadcast: every Sender has been dropped
    src_last,    \* the last step of the source: what was pushed, or what the run handed off
    src_pushed,  \* history: every DiffRow pushed to the broadcast, in order
    src_handed,  \* history: every DiffRow handed off by the source subgraph, in order
    src_lagged,  \* history: src_recv has lost a value at least once
    src_steps    \* number of steps made

VARIABLES
    sink_last,      \* the last run of the sink subgraph: its batches, the rows sent and the results of send
    sink_received,  \* history: the rows whose send returned Ok, in order
    sink_steps      \* number of runs made

VARIABLES
    cli_last,    \* the last call on a client Error: the error and the result
    cli_steps    \* number of calls made on client errors

VARIABLES
    hdr_pc,      \* the header map: "new", "filled", "decoded" or "converted"
    hdr_values,  \* the values the map holds for the x-greptime-err-info header
    hdr_last     \* the last call on the header map: its argument and result

VARIABLES
    fnm,            \* FlowNodeManager: [task_states, source_sender, sink_receiver, flownode_context]
    fnm_last,       \* the last create_task call: its arguments, result and pre-state
    fnm_translated, \* history: the number of sql_to_flow_plan calls made
    fnm_panicked,   \* a create_task call reached todo!()
    fnm_steps       \* number of create_task calls made

VARIABLES
    cfp_data,    \* CreateFlowProcedure.data: [task, source_table_ids, source_versions, sink_version]
    cfp_names,   \* table metadata: the table names that are registered
    cfp_infos,   \* table metadata: per table id that has an info, the version of the table
    cfp_last,    \* the last step: the result of collect_source_tables and the data before it
    cfp_steps    \* number of steps made

dm_vars == <<dmap, dm_last, dm_prev, dm_edited, dm_emitted, dm_steps>>

ekv_vars == <<ekv, ekv_last, ekv_steps>>

tfs_vars == <<tfs, tfs_last, tfs_order, tfs_sum, tfs_run, tfs_steps>>

acc_vars == <<acc_fn, acc, acc_last, acc_restored, acc_sums, acc_seen, acc_steps>>

src_vars == <<src_now, src_arr, src_chan, src_missed, src_closed, src_last, src_pushed,
              src_handed, src_lagged, src_steps>>

sink_vars == <<sink_last, sink_received, sink_steps>>

cli_vars == <<cli_last, cli_steps>>

hdr_vars == <<hdr_pc, hdr_values, hdr_last>>

fnm_vars == <<fnm, fnm_last, fnm_translated, fnm_panicked, fnm_steps>>

cfp_vars == <<cfp_data, cfp_names, cfp_infos, cfp_last, cfp_steps>>

vars == <<dm_vars, ekv_vars, tfs_vars, acc_vars, src_vars, sink_vars, cli_vars, hdr_vars, fnm_vars, cfp_vars>>

\* what a DiffMap call leaves alone
dm_others == <<ekv_vars, tfs_vars, acc_vars, src_vars, sink_vars, cli_vars, hdr_vars, fnm_vars, cfp_vars>>

\* what an ExpiringKeyValueState call leaves alone
ekv_others == <<dm_vars, tfs_vars, acc_vars, src_vars, sink_vars, cli_vars, hdr_vars, fnm_vars, cfp_vars>>

\* what a TemporalFilterState call leaves alone
tfs_others == <<dm_vars, ekv_vars, acc_vars, src_vars, sink_vars, cli_vars, hdr_vars, fnm_vars, cfp_vars>>

\* what an Accum call leaves alone
acc_others == <<dm_vars, ekv_vars, tfs_vars, src_vars, sink_vars, cli_vars, hdr_vars, fnm_vars, cfp_vars>>

\* what the source subgraph and its broadcast leave alone
src_others == <<dm_vars, ekv_vars, tfs_vars, acc_vars, sink_vars, cli_vars, hdr_vars, fnm_vars, cfp_vars>>

\* what the sink subgraph leaves alone
sink_others == <<dm_vars, ekv_vars, tfs_vars, acc_vars, src_vars, cli_vars, hdr_vars, fnm_vars, cfp_vars>>

\* what a call on a client error leaves alone
cli_others == <<dm_vars, ekv_vars, tfs_vars, acc_vars, src_vars, sink_vars, hdr_vars, fnm_vars, cfp_vars>>

\* what a call on a header map leaves alone
hdr_others == <<dm_vars, ekv_vars, tfs_vars, acc_vars, src_vars, sink_vars, cli_vars, fnm_vars, cfp_vars>>

\* what a FlowNodeManager call leaves alone
fnm_others == <<dm_vars, ekv_vars, tfs_vars, acc_vars, src_vars, sink_vars, cli_vars, hdr_vars, cfp_vars>>

\* what a CreateFlowProcedure step leaves alone
cfp_others == <<dm_vars, ekv_vars, tfs_vars, acc_vars, src_vars, sink_vars, cli_vars, hdr_vars, fnm_vars>>

(***************************************************************************)
(* Option<T>, BTreeMap<K, V> and the order of Row                          *)
(***************************************************************************)

\* Option::None
None == <<>>

\* Option::Some(v)
Some(v) == <<v>>

IsSome(o) == o # None

Unwrap(o) == o[1]

\* BTreeMap::new()
EmptyMap == [x \in {} |-> None]

\* BTreeMap::get
MapGet(m, k) == IF k \in DOMAIN m THEN Some(m[k]) ELSE None

\* BTreeMap::insert (the map after the call)
MapInsert(m, k, v) == [x \in (DOMAIN m) \cup {k} |-> IF x = k THEN v ELSE m[x]]

\* BTreeMap::remove (the map after the call)
MapRemove(m, k) == [x \in (DOMAIN m) \ {k} |-> m[x]]

\* Ord for Row (a Vec of values): lexicographic, a proper prefix first
RECURSIVE RowLess(_, _)
RowLess(a, b) ==
    IF a = <<>> THEN b # <<>>
    ELSE IF b = <<>> THEN FALSE
    ELSE IF a[1] < b[1] THEN TRUE
    ELSE IF b[1] < a[1] THEN FALSE
    ELSE RowLess(Tail(a), Tail(b))

\* the least row of a non-empty set of rows
MinRow(S) == CHOOSE x \in S : \A y \in S : x = y \/ RowLess(x, y)

\* the rows of S in ascending order: the order in which a BTreeMap keyed by Row iterates
RECURSIVE RowsAscending(_)
RowsAscending(S) ==
    IF S = {} THEN <<>>
    ELSE LET m == MinRow(S) IN <<m>> \o RowsAscending(S \ {m})

\* the integers of S in ascending order: the order in which a BTreeMap keyed by Timestamp iterates
RECURSIVE IntsAscending(_)
IntsAscending(S) ==
    IF S = {} THEN <<>>
    ELSE LET m == CHOOSE x \in S : \A y \in S : x <= y
         IN <<m>> \o IntsAscending(S \ {m})

(***************************************************************************)
(* DiffMap<K, V>  (utils.rs)                                               *)
(***************************************************************************)

\* DiffMap::default()
DiffMap_default == [inner |-> EmptyMap, delta |-> EmptyMap]

\* mutant: every insert overwrites the recorded old value with the value it replaces
DiffMap_insert_forgets_first_old(dm, key, value) ==
    LET old_v == MapGet(dm.inner, key)
    IN [dm  |-> [inner |-> MapInsert(dm.inner, key, value),
                 delta |-> MapInsert(dm.delta, key, <<old_v, Some(value)>>)],
        ret |-> old_v]

\* DiffMap::insert: the map after the call and the returned old value
DiffMap_insert(dm, key, value) ==
    LET old_v == MapGet(dm.inner, key)
        inner == MapInsert(dm.inner, key, value)
        delta == IF key \in DOMAIN dm.delta
                 THEN [dm.delta EXCEPT ![key] = <<@[1], Some(value)>>]
                 ELSE IF IsSome(old_v)
                      THEN MapInsert(dm.delta, key, <<Some(Unwrap(old_v)), Some(value)>>)
                      ELSE MapInsert(dm.delta, key, <<None, Some(value)>>)
    IN [dm |-> [inner |-> inner, delta |-> delta], ret |-> old_v]

\* mutant: a remove of a key with a pending transition drops the transition
DiffMap_remove_drops_transition(dm, key) ==
    LET old_v == MapGet(dm.inner, key)
    IN [dm  |-> [inner |-> MapRemove(dm.inner, key),
                 delta |-> IF key \in DOMAIN dm.delta
                           THEN MapRemove(dm.delta, key)
                           ELSE IF IsSome(old_v)
                                THEN MapInsert(dm.delta, key, <<old_v, None>>)
                                ELSE dm.delta],
        ret |-> old_v]

\* DiffMap::remove: the map after the call and the returned old value
DiffMap_remove(dm, key) ==
    LET old_v == MapGet(dm.inner, key)
        inner == MapRemove(dm.inner, key)
        delta == IF key \in DOMAIN dm.delta
                 THEN [dm.delta EXCEPT ![key] = <<@[1], None>>]
                 ELSE IF IsSome(old_v)
                      THEN MapInsert(dm.delta, key, <<Some(Unwrap(old_v)), None>>)
                      ELSE dm.delta
    IN [dm |-> [inner |-> inner, delta |-> delta], ret |-> old_v]

\* the records gen_diff pushes for the keys ks (in that order) of the taken delta
RECURSIVE DiffRecords(_, _, _)
DiffRecords(delta, ks, tick) ==
    IF ks = <<>> THEN <<>>
    ELSE LET k     == Head(ks)
             old_v == delta[k][1]
             new_v == delta[k][2]
         IN (IF IsSome(old_v) THEN << <<<<k, Unwrap(old_v)>>, tick, -1>> >> ELSE <<>>)
            \o (IF IsSome(new_v) THEN << <<<<k, Unwrap(new_v)>>, tick, 1>> >> ELSE <<>>)
            \o DiffRecords(delta, Tail(ks), tick)

\* mutant: gen_diff reads the transition buffer without taking it
DiffMap_gen_diff_keeps_delta(dm, tick) ==
    [dm  |-> dm,
     out |-> DiffRecords(dm.delta, RowsAscending(DOMAIN dm.delta), tick)]

\* DiffMap::gen_diff: the map after the call and the returned vector
DiffMap_gen_diff(dm, tick) ==
    LET delta == dm.delta
    IN [dm  |-> [inner |-> dm.inner, delta |-> EmptyMap],
        out |-> DiffRecords(delta, RowsAscending(DOMAIN delta), tick)]

(***************************************************************************)
(* ExpiringKeyValueState  (state.rs)                                       *)
(***************************************************************************)

\* ExpiringKeyValueState::new
ExpiringKeyValueState_new(key_expiration_duration, event_timestamp_from_row) ==
    [inner |-> DiffMap_default,
     time2key |-> EmptyMap,
     key_expiration_duration |-> key_expiration_duration,
     event_timestamp_from_row |-> event_timestamp_from_row]

\* ExpiringKeyValueState::default: no expiration, the literal 0 as event time
ExpiringKeyValueState_default == ExpiringKeyValueState_new(None, "Literal0")

\* ExpiringKeyValueState::extract_event_ts for the two expressions used in the
\* source: ScalarExpr::Column(0) and the literal 0i64
extract_event_ts(s, row) ==
    IF s.event_timestamp_from_row = "Column0" THEN row[1] ELSE 0

\* the least element of a non-empty set of timestamps: the first key of a BTreeMap
FirstKey(S) == CHOOSE x \in S : \A y \in S : x <= y

\* ScheduledAction::schd_at of ExpiringKeyValueState: the first key of the time
\* index plus the expiration duration; `now` is not read
ExpiringKeyValueState_schd_at(s, now) ==
    IF DOMAIN s.time2key = {} \/ ~IsSome(s.key_expiration_duration) THEN None
    ELSE Some(Unwrap(s.key_expiration_duration) + FirstKey(DOMAIN s.time2key))

\* ExpiringKeyValueState::get_expire_time
get_expire_time(s, current) ==
    IF IsSome(s.key_expiration_duration)
    THEN Some(current - Unwrap(s.key_expiration_duration))
    ELSE None

\* `<` of Option<Timestamp>: None is less than every Some
OptionLess(a, b) ==
    IF IsSome(a) THEN IsSome(b) /\ Unwrap(a) < Unwrap(b) ELSE IsSome(b)

\* sum of the sizes of the buckets ts of the time index
RECURSIVE CountKeys(_, _)
CountKeys(time2key, ts) ==
    IF ts = {} THEN 0
    ELSE LET t == CHOOSE x \in ts : TRUE
         IN Cardinality(time2key[t]) + CountKeys(time2key, ts \ {t})

\* mutant: split_off at expire_time + 1, so the bucket at expire_time expires too
trunc_expired_inclusive(s, cur_time) ==
    LET expire_at == get_expire_time(s, cur_time)
    IN IF ~IsSome(expire_at) THEN [s |-> s, cnt |-> 0]
       ELSE LET before == {t \in DOMAIN s.time2key : t <= Unwrap(expire_at)}
                keys   == UNION {s.time2key[t] : t \in before}
            IN [s   |-> [s EXCEPT
                           !.time2key = [t \in (DOMAIN s.time2key) \ before |-> s.time2key[t]],
                           !.inner.inner = [k \in (DOMAIN s.inner.inner) \ keys |-> s.inner.inner[k]]],
                cnt |-> CountKeys(s.time2key, before)]

\* mutant: the expiry goes through DiffMap::remove and records a transition
trunc_expired_records_delta(s, cur_time) ==
    LET expire_at == get_expire_time(s, cur_time)
    IN IF ~IsSome(expire_at) THEN [s |-> s, cnt |-> 0]
       ELSE LET before == {t \in DOMAIN s.time2key : t < Unwrap(expire_at)}
                keys   == UNION {s.time2key[t] : t \in before}
            IN [s   |-> [s EXCEPT
                           !.time2key = [t \in (DOMAIN s.time2key) \ before |-> s.time2key[t]],
                           !.inner.inner = [k \in (DOMAIN s.inner.inner) \ keys |-> s.inner.inner[k]],
                           !.inner.delta = [k \in (DOMAIN s.inner.delta) \cup (keys \cap DOMAIN s.inner.inner) |->
                                               IF k \in DOMAIN s.inner.delta
                                               THEN IF k \in keys THEN <<s.inner.delta[k][1], None>>
                                                    ELSE s.inner.delta[k]
                                               ELSE <<Some(s.inner.inner[k]), None>>]],
                cnt |-> CountKeys(s.time2key, before)]

\* mutant: the count is the number of expired buckets, not of expired keys
trunc_expired_counts_buckets(s, cur_time) ==
    LET expire_at == get_expire_time(s, cur_time)
    IN IF ~IsSome(expire_at) THEN [s |-> s, cnt |-> 0]
       ELSE LET before == {t \in DOMAIN s.time2key : t < Unwrap(expire_at)}
                keys   == UNION {s.time2key[t] : t \in before}
            IN [s   |-> [s EXCEPT
                           !.time2key = [t \in (DOMAIN s.time2key) \ before |-> s.time2key[t]],
                           !.inner.inner = [k \in (DOMAIN s.inner.inner) \ keys |-> s.inner.inner[k]]],
                cnt |-> Cardinality(before)]

\* mutant: only the bucket just before the expire time is dropped
trunc_expired_last_bucket_only(s, cur_time) ==
    LET expire_at == get_expire_time(s, cur_time)
    IN IF ~IsSome(expire_at) THEN [s |-> s, cnt |-> 0]
       ELSE LET before == {t \in DOMAIN s.time2key : t = Unwrap(expire_at) - 1}
                keys   == UNION {s.time2key[t] : t \in before}
            IN [s   |-> [s EXCEPT
                           !.time2key = [t \in (DOMAIN s.time2key) \ before |-> s.time2key[t]],
                           !.inner.inner = [k \in (DOMAIN s.inner.inner) \ keys |-> s.inner.inner[k]]],
                cnt |-> CountKeys(s.time2key, before)]

\* ExpiringKeyValueState::trunc_expired: the state after the call and the returned
\* count. split_off(&expire_time) keeps the buckets >= expire_time; the buckets
\* before it are dropped and their keys removed from inner.inner (not through
\* DiffMap::remove, so delta is not touched).
trunc_expired(s, cur_time) ==
    LET expire_at == get_expire_time(s, cur_time)
    IN IF ~IsSome(expire_at) THEN [s |-> s, cnt |-> 0]
       ELSE LET expire_time == Unwrap(expire_at)
                before == {t \in DOMAIN s.time2key : t < expire_time}
                keys   == UNION {s.time2key[t] : t \in before}
            IN [s   |-> [s EXCEPT
                           !.time2key = [t \in (DOMAIN s.time2key) \ before |-> s.time2key[t]],
                           !.inner.inner = [k \in (DOMAIN s.inner.inner) \ keys |-> s.inner.inner[k]]],
                cnt |-> CountKeys(s.time2key, before)]

\* ExpiringKeyValueState::get
ExpiringKeyValueState_get(s, k) == MapGet(s.inner.inner, k)

\* Result::Ok(v)
Ok(v) == [ok |-> TRUE, val |-> v, err |-> "", late_by |-> 0]

\* Err(EvalError::LateDataDiscarded { late_by })
LateDataDiscarded(late_by) ==
    [ok |-> FALSE, val |-> None, err |-> "LateDataDiscarded", late_by |-> late_by]

\* BTreeMap::entry(ts).or_default(): the bucket of ts, created empty if absent
EntryOrDefault(time2key, ts) == IF ts \in DOMAIN time2key THEN time2key[ts] ELSE {}

\* mutant: a key exactly at the expire time is rejected too (<= instead of <)
ExpiringKeyValueState_insert_rejects_boundary(s, current, k, v) ==
    LET ts == extract_event_ts(s, k)
        expire_at == get_expire_time(s, current)
    IN IF IsSome(expire_at) /\ ts <= Unwrap(expire_at)
       THEN [s |-> s, ret |-> LateDataDiscarded(Unwrap(expire_at) - ts)]
       ELSE LET r == DiffMap_insert(s.inner, k, v)
            IN [s   |-> [s EXCEPT
                           !.time2key = MapInsert(s.time2key, ts, EntryOrDefault(s.time2key, ts) \cup {k}),
                           !.inner = r.dm],
                ret |-> Ok(r.ret)]

\* ExpiringKeyValueState::insert: the state after the call and the returned Result
ExpiringKeyValueState_insert(s, current, k, v) ==
    LET ts == extract_event_ts(s, k)
        expire_at == get_expire_time(s, current)
    IN IF OptionLess(Some(ts), expire_at)
       THEN [s |-> s, ret |-> LateDataDiscarded(Unwrap(expire_at) - ts)]
       ELSE LET r == DiffMap_insert(s.inner, k, v)
            IN [s   |-> [s EXCEPT
                           !.time2key = MapInsert(s.time2key, ts, EntryOrDefault(s.time2key, ts) \cup {k}),
                           !.inner = r.dm],
                ret |-> Ok(r.ret)]

\* mutant: the bucket of the key is looked up, and created, before the expiry check
ExpiringKeyValueState_remove_touches_index_first(s, current, k) ==
    LET ts == extract_event_ts(s, k)
        expire_at == get_expire_time(s, current)
    IN IF OptionLess(Some(ts), expire_at)
       THEN [s   |-> [s EXCEPT !.time2key = MapInsert(s.time2key, ts, EntryOrDefault(s.time2key, ts))],
             ret |-> LateDataDiscarded(Unwrap(expire_at) - ts)]
       ELSE LET r == DiffMap_remove(s.inner, k)
            IN [s   |-> [s EXCEPT
                           !.time2key = MapInsert(s.time2key, ts, EntryOrDefault(s.time2key, ts) \ {k}),
                           !.inner = r.dm],
                ret |-> Ok(r.ret)]

\* ExpiringKeyValueState::remove: the state after the call and the returned Result
ExpiringKeyValueState_remove(s, current, k) ==
    LET ts == extract_event_ts(s, k)
        expire_at == get_expire_time(s, current)
    IN IF OptionLess(Some(ts), expire_at)
       THEN [s |-> s, ret |-> LateDataDiscarded(Unwrap(expire_at) - ts)]
       ELSE LET r == DiffMap_remove(s.inner, k)
            IN [s   |-> [s EXCEPT
                           !.time2key = MapInsert(s.time2key, ts, EntryOrDefault(s.time2key, ts) \ {k}),
                           !.inner = r.dm],
                ret |-> Ok(r.ret)]

\* ExpiringKeyValueState::gen_diff
ExpiringKeyValueState_gen_diff(s, tick) ==
    LET r == DiffMap_gen_diff(s.inner, tick)
    IN [s |-> [s EXCEPT !.inner = r.dm], out |-> r.out]

(***************************************************************************)
(* TemporalFilterState  (state.rs)                                         *)
(***************************************************************************)

\* TemporalFilterState::default()
TemporalFilterState_default == [spine |-> EmptyMap]

\* ScheduledAction::schd_at of TemporalFilterState: the first key of the spine;
\* `now` is not read
TemporalFilterState_schd_at(s, now) ==
    IF DOMAIN s.spine = {} THEN None ELSE Some(FirstKey(DOMAIN s.spine))

\* one iteration of the loop of append_delta_row: entry(time).or_default() creates
\* the bucket; an occupied row entry is added to and removed when it reaches zero,
\* a vacant one is inserted with the diff as it is
AppendOne(spine, row, time, diff) ==
    LET this_time == IF time \in DOMAIN spine THEN spine[time] ELSE EmptyMap
        bucket    == IF row \in DOMAIN this_time
                     THEN IF this_time[row] + diff = 0
                          THEN MapRemove(this_time, row)
                          ELSE MapInsert(this_time, row, this_time[row] + diff)
                     ELSE MapInsert(this_time, row, diff)
    IN MapInsert(spine, time, bucket)

\* TemporalFilterState::append_delta_row: the state after the rows are appended in order
RECURSIVE append_delta_row(_, _)
append_delta_row(s, rows) ==
    IF rows = <<>> THEN s
    ELSE LET r == Head(rows)
         IN append_delta_row([s EXCEPT !.spine = AppendOne(s.spine, r[1], r[2], r[3])],
                             Tail(rows))

\* the (row, t, diff) entries of one bucket for the rows rs, in that order
RECURSIVE BucketEntries(_, _, _)
BucketEntries(rows, rs, t) ==
    IF rs = <<>> THEN <<>>
    ELSE << <<Head(rs), t, rows[Head(rs)]>> >> \o BucketEntries(rows, Tail(rs), t)

\* mutant: the rows of a bucket come out in descending order
RECURSIVE RowsDescending(_)
RowsDescending(S) ==
    IF S = {} THEN <<>>
    ELSE LET m == MinRow(S) IN RowsDescending(S \ {m}) \o <<m>>

\* the loop of trunc_until_inclusive over the buckets ts (in that order): each
\* bucket is a BTreeMap<Row, Diff> and is iterated in ascending Row order
RECURSIVE SpineEntries(_, _)
SpineEntries(spine, ts) ==
    IF ts = <<>> THEN <<>>
    ELSE LET t == Head(ts)
         IN BucketEntries(spine[t], RowsAscending(DOMAIN spine[t]), t)
            \o SpineEntries(spine, Tail(ts))

\* mutant of the loop: descending rows within a bucket
RECURSIVE SpineEntriesDescendingRows(_, _)
SpineEntriesDescendingRows(spine, ts) ==
    IF ts = <<>> THEN <<>>
    ELSE LET t == Head(ts)
         IN BucketEntries(spine[t], RowsDescending(DOMAIN spine[t]), t)
            \o SpineEntriesDescendingRows(spine, Tail(ts))

\* mutant: split_off(&time), so the bucket at `time` itself stays in the state
trunc_until_exclusive(s, time) ==
    LET lte == {t \in DOMAIN s.spine : t < time}
    IN [s   |-> [s EXCEPT !.spine = [t \in (DOMAIN s.spine) \ lte |-> s.spine[t]]],
        ret |-> SpineEntries(s.spine, IntsAscending(lte))]

\* mutant: the rows of one bucket are returned in descending order
trunc_until_inclusive_descending_rows(s, time) ==
    LET lte == {t \in DOMAIN s.spine : t < time + 1}
    IN [s   |-> [s EXCEPT !.spine = [t \in (DOMAIN s.spine) \ lte |-> s.spine[t]]],
        ret |-> SpineEntriesDescendingRows(s.spine, IntsAscending(lte))]

\* mutant: the returned buckets are copied out and stay in the state
trunc_until_inclusive_keeps_returned(s, time) ==
    LET lte == {t \in DOMAIN s.spine : t < time + 1}
    IN [s   |-> s,
        ret |-> SpineEntries(s.spine, IntsAscending(lte))]

\* TemporalFilterState::trunc_until_inclusive: the state after the call and the
\* returned vector. split_off(&(time + 1)) keeps the buckets >= time + 1.
trunc_until_inclusive(s, time) ==
    LET gt_time  == {t \in DOMAIN s.spine : t >= time + 1}
        lte_time == (DOMAIN s.spine) \ gt_time
    IN [s   |-> [s EXCEPT !.spine = [t \in gt_time |-> s.spine[t]]],
        ret |-> SpineEntries(s.spine, IntsAscending(lte_time))]

(***************************************************************************)
(* Value, AggregateFunc  (used by accum.rs)                                *)
(***************************************************************************)

\* A Value is [t |-> its type, n |-> its number, c |-> its class]. The class is
\* "fin" except for the floats NaN ("nan"), +inf ("pinf") and -inf ("ninf"), and
\* for a u64 that stands for 2^64 + n ("plus2p64", n < 0). A finite float is the
\* integer n (1.0 is 1): sums and products of these are exact in f32 and f64.
Val(t, n) == [t |-> t, n |-> n, c |-> "fin"]

\* Value::Null
Null == Val("Null", 0)

\* Value::Boolean
Boolean(b) == Val("Boolean", IF b THEN 1 ELSE 0)

\* Value::from(i64), Diff::into()
Int64(n) == Val("Int64", n)

\* an OrderedF64 / OrderedF32: [c |-> class, n |-> number]
Float(c, n) == [c |-> c, n |-> n]

\* Value::Float64(OrderedF64), Value::Float32(OrderedF32)
FloatValue(t, x) == [t |-> t, n |-> x.n, c |-> x.c]

\* the OrderedF64 / OrderedF32 inside a float Value
FloatOf(v) == Float(v.c, v.n)

\* Value::data_type
data_type(v) == v.t

\* f64::MANTISSA_DIGITS is 53 and f32::MANTISSA_DIGITS is 24; the model keeps the
\* rounding of the binary formats and shortens both mantissas, so that the first
\* integers the formats cannot hold are small
F64_MANTISSA_DIGITS == 4

F32_MANTISSA_DIGITS == 3

\* the distance between the neighbours of m >= 0 in a format of `digits` digits
RECURSIVE Ulp(_, _)
Ulp(m, digits) == IF m < 2 ^ digits THEN 1 ELSE 2 * Ulp(m \div 2, digits)

\* m >= 0 rounded to a multiple of q, a tie to the even multiple
RoundHalfEven(m, q) ==
    LET lo == (m \div q) * q
        r  == m - lo
    IN IF 2 * r < q THEN lo
       ELSE IF 2 * r > q THEN lo + q
       ELSE IF (m \div q) % 2 = 0 THEN lo ELSE lo + q

\* the float of `digits` digits nearest to the integer n (round to nearest, ties
\* to even)
RoundFloat(n, digits) ==
    IF n >= 0 THEN RoundHalfEven(n, Ulp(n, digits))
    ELSE -RoundHalfEven(-n, Ulp(-n, digits))

\* a + b and a * b of two finite f64
F64Add(a, b) == RoundFloat(a + b, F64_MANTISSA_DIGITS)

F64Mul(a, b) == RoundFloat(a * b, F64_MANTISSA_DIGITS)

\* `x as f32` of a finite f64
F64AsF32(a) == RoundFloat(a, F32_MANTISSA_DIGITS)

\* rank of a float class in the total order of OrderedFloat: -inf < finite < +inf < NaN
FloatRank(c) == CASE c = "ninf" -> 0 [] c = "fin" -> 1 [] c = "pinf" -> 2 [] OTHER -> 3

\* Ord for two Values of one type
ValueLess(a, b) ==
    IF a.c = b.c THEN a.c = "fin" /\ a.n < b.n
    ELSE FloatRank(a.c) < FloatRank(b.c)

\* Ord::max, Ord::min on Values of one type
ValueMax(a, b) == IF ValueLess(b, a) THEN a ELSE b

ValueMin(a, b) == IF ValueLess(b, a) THEN b ELSE a

\* Diff::try_from(Value): an Int64 value
DiffTryFrom(v) ==
    IF v.t = "Int64" THEN [ok |-> TRUE, val |-> v.n] ELSE [ok |-> FALSE, val |-> 0]

\* Decimal128::try_from(Value) followed by val(): the i128 of a Decimal128 value
Decimal128TryFrom(v) ==
    IF v.t = "Decimal128" THEN [ok |-> TRUE, val |-> v.n] ELSE [ok |-> FALSE, val |-> 0]

\* OrderedF64::try_from(Value): a Float64 value
OrderedF64TryFrom(v) ==
    IF v.t = "Float64" THEN [ok |-> TRUE, val |-> FloatOf(v)]
    ELSE [ok |-> FALSE, val |-> Float("fin", 0)]

BoolFuncs == {"Any", "All", "MaxBool", "MinBool"}

SignedSumFuncs == {"SumInt16", "SumInt32", "SumInt64"}

UnsignedSumFuncs == {"SumUInt16", "SumUInt32", "SumUInt64"}

SimpleNumberFuncs == SignedSumFuncs \cup UnsignedSumFuncs

FloatFuncs == {"SumFloat32", "SumFloat64"}

\* AggregateFunc::is_max
is_max(f) == f \in {"MaxBool", "MaxInt32", "MaxFloat32", "MaxDateTime"}

\* AggregateFunc::is_min
is_min(f) == f \in {"MinBool", "MinInt32"}

\* the aggregate functions of the model: those of test_accum and the other sums
AggregateFuncs ==
    BoolFuncs \cup SimpleNumberFuncs \cup FloatFuncs
        \cup {"MaxInt32", "MinInt32", "MaxFloat32", "MaxDateTime", "Count"}

(***************************************************************************)
(* Accumulators  (accum.rs)                                                *)
(***************************************************************************)

\* Ok(accumulator)
AccOk(a) == [ok |-> TRUE, acc |-> a, err |-> ""]

\* Err(error); `a` is the accumulator as the failed call leaves it
AccErr(a, e) == [ok |-> FALSE, acc |-> a, err |-> e]

\* Ok(value) and Err(error) of eval
EvalOk(v) == [ok |-> TRUE, val |-> v, err |-> ""]

EvalErr(e) == [ok |-> FALSE, val |-> Null, err |-> e]

\* ---- Bool ----

Bool_into_state(a) == <<Int64(a.trues), Int64(a.falses)>>

\* mutant: a state list longer than the two counters is accepted
Bool_try_from_accepts_longer(state) ==
    IF Len(state) < 2 THEN AccErr(Null, "Internal")
    ELSE LET trues  == DiffTryFrom(state[1])
             falses == DiffTryFrom(state[2])
         IN IF ~trues.ok \/ ~falses.ok THEN AccErr(Null, "TryFromValue")
            ELSE AccOk([variant |-> "Bool", trues |-> trues.val, falses |-> falses.val])

Bool_try_from(state) ==
    IF Len(state) # 2 THEN AccErr(Null, "Internal")
    ELSE LET trues  == DiffTryFrom(state[1])
             falses == DiffTryFrom(state[2])
         IN IF ~trues.ok \/ ~falses.ok THEN AccErr(Null, "TryFromValue")
            ELSE AccOk([variant |-> "Bool", trues |-> trues.val, falses |-> falses.val])

\* mutant: a retraction of a boolean is counted as an insertion of its negation
Bool_update_retraction_flips(a, aggr_fn, value, diff) ==
    IF aggr_fn \notin BoolFuncs THEN AccErr(a, "Internal")
    ELSE IF value.t # "Boolean" THEN AccErr(a, "TypeMismatch")
    ELSE IF (value = Boolean(TRUE)) = (diff >= 0)
         THEN AccOk([a EXCEPT !.trues = @ + (IF diff >= 0 THEN diff ELSE -diff)])
         ELSE AccOk([a EXCEPT !.falses = @ + (IF diff >= 0 THEN diff ELSE -diff)])

Bool_update(a, aggr_fn, value, diff) ==
    IF aggr_fn \notin BoolFuncs THEN AccErr(a, "Internal")
    ELSE IF value = Boolean(TRUE) THEN AccOk([a EXCEPT !.trues = @ + diff])
    ELSE IF value = Boolean(FALSE) THEN AccOk([a EXCEPT !.falses = @ + diff])
    ELSE AccErr(a, "TypeMismatch")

Bool_eval(a, aggr_fn) ==
    CASE aggr_fn \in {"Any", "MaxBool"} -> EvalOk(Boolean(a.trues > 0))
      [] aggr_fn \in {"All", "MinBool"} -> EvalOk(Boolean(a.falses = 0))
      [] OTHER -> EvalErr("Internal")

\* ---- SimpleNumber ----

SimpleNumber_into_state(a) == <<Val("Decimal128", a.accum), Int64(a.non_nulls)>>

SimpleNumber_try_from(state) ==
    IF Len(state) # 2 THEN AccErr(Null, "Internal")
    ELSE LET accum     == Decimal128TryFrom(state[1])
             non_nulls == DiffTryFrom(state[2])
         IN IF ~accum.ok \/ ~non_nulls.ok THEN AccErr(Null, "TryFromValue")
            ELSE AccOk([variant |-> "SimpleNumber", accum |-> accum.val,
                        non_nulls |-> non_nulls.val])

SimpleNumber_update(a, aggr_fn, value, diff) ==
    IF aggr_fn \notin SimpleNumberFuncs THEN AccErr(a, "Internal")
    ELSE IF value.t \in {"Int16", "Int32", "Int64", "UInt16", "UInt32", "UInt64"}
         THEN AccOk([a EXCEPT !.accum = @ + value.n * diff, !.non_nulls = @ + diff])
         ELSE AccErr(a, "TypeMismatch")

\* `accum as i64` and `accum as u64` for an accum of small magnitude
AsI64(x) == Val("Int64", x)

AsU64(x) == IF x >= 0 THEN Val("UInt64", x) ELSE [t |-> "UInt64", n |-> x, c |-> "plus2p64"]

SimpleNumber_eval(a, aggr_fn) ==
    CASE aggr_fn \in SignedSumFuncs -> EvalOk(AsI64(a.accum))
      [] aggr_fn \in UnsignedSumFuncs -> EvalOk(AsU64(a.accum))
      [] OTHER -> EvalErr("Internal")

\* ---- Float ----

Float_into_state(a) ==
    <<FloatValue("Float64", a.accum), Int64(a.pos_infs), Int64(a.neg_infs),
      Int64(a.nans), Int64(a.non_nulls)>>

\* mutant: the rebuilt accumulator keeps the accum of the state as it is
Float_try_from_keeps_accum(state) ==
    IF Len(state) # 5 THEN AccErr(Null, "Internal")
    ELSE LET accum     == OrderedF64TryFrom(state[1])
             pos_infs  == DiffTryFrom(state[2])
             neg_infs  == DiffTryFrom(state[3])
             nans      == DiffTryFrom(state[4])
             non_nulls == DiffTryFrom(state[5])
         IN IF ~accum.ok \/ ~pos_infs.ok \/ ~neg_infs.ok \/ ~nans.ok \/ ~non_nulls.ok
            THEN AccErr(Null, "TryFromValue")
            ELSE AccOk([variant |-> "Float", accum |-> accum.val,
                        pos_infs |-> pos_infs.val, neg_infs |-> neg_infs.val,
                        nans |-> nans.val, non_nulls |-> non_nulls.val])

\* Float::try_from: accum is set to 0.0 when the rebuilt non_nulls is 0
Float_try_from(state) ==
    IF Len(state) # 5 THEN AccErr(Null, "Internal")
    ELSE LET accum     == OrderedF64TryFrom(state[1])
             pos_infs  == DiffTryFrom(state[2])
             neg_infs  == DiffTryFrom(state[3])
             nans      == DiffTryFrom(state[4])
             non_nulls == DiffTryFrom(state[5])
         IN IF ~accum.ok \/ ~pos_infs.ok \/ ~neg_infs.ok \/ ~nans.ok \/ ~non_nulls.ok
            THEN AccErr(Null, "TryFromValue")
            ELSE AccOk([variant |-> "Float",
                        accum |-> IF non_nulls.val = 0 THEN Float("fin", 0) ELSE accum.val,
                        pos_infs |-> pos_infs.val, neg_infs |-> neg_infs.val,
                        nans |-> nans.val, non_nulls |-> non_nulls.val])

\* Float::update: NaN and the infinities are counted, a finite value is added to
\* accum as x * diff; non_nulls is increased in every case
Float_update(a, aggr_fn, value, diff) ==
    IF aggr_fn \notin FloatFuncs THEN AccErr(a, "Internal")
    ELSE IF value.t \notin {"Float32", "Float64"} THEN AccErr(a, "TypeMismatch")
    ELSE LET x == FloatOf(value)
             counted ==
                 IF x.c = "nan" THEN [a EXCEPT !.nans = @ + diff]
                 ELSE IF x.c = "pinf" THEN [a EXCEPT !.pos_infs = @ + diff]
                 ELSE IF x.c = "ninf" THEN [a EXCEPT !.neg_infs = @ + diff]
                 ELSE [a EXCEPT !.accum = Float("fin", F64Add(@.n, F64Mul(x.n, diff)))]
         IN AccOk([counted EXCEPT !.non_nulls = @ + diff])

Float_eval(a, aggr_fn) ==
    CASE aggr_fn = "SumFloat32" ->
            EvalOk(FloatValue("Float32", Float(a.accum.c, F64AsF32(a.accum.n))))
      [] aggr_fn = "SumFloat64" -> EvalOk(FloatValue("Float64", a.accum))
      [] OTHER -> EvalErr("Internal")

\* ---- OrdValue ----

OrdValue_into_state(a) ==
    <<IF IsSome(a.val) THEN Unwrap(a.val) ELSE Null, Int64(a.non_nulls)>>

\* OrdValue::try_from: val is always Some(first element)
OrdValue_try_from(state) ==
    IF Len(state) # 2 THEN AccErr(Null, "Internal")
    ELSE LET non_nulls == DiffTryFrom(state[2])
         IN IF ~non_nulls.ok THEN AccErr(Null, "TryFromValue")
            ELSE AccOk([variant |-> "OrdValue", val |-> Some(state[1]),
                        non_nulls |-> non_nulls.val])

\* mutant: min/max keep the first value they are given
OrdValue_update_keeps_first_value(a, aggr_fn, value, diff) ==
    IF ~(is_max(aggr_fn) \/ is_min(aggr_fn) \/ aggr_fn = "Count") THEN AccErr(a, "Internal")
    ELSE IF IsSome(a.val) /\ data_type(Unwrap(a.val)) # data_type(value)
         THEN AccErr(a, "TypeMismatch")
    ELSE IF diff <= 0 /\ (is_max(aggr_fn) \/ is_min(aggr_fn)) THEN AccErr(a, "Internal")
    ELSE LET val == IF is_max(aggr_fn) \/ is_min(aggr_fn)
                    THEN IF IsSome(a.val) THEN a.val ELSE Some(value)
                    ELSE a.val
         IN AccOk([a EXCEPT !.val = val, !.non_nulls = @ + diff])

\* mutant: min/max take a non-positive diff
OrdValue_update_accepts_retraction(a, aggr_fn, value, diff) ==
    IF ~(is_max(aggr_fn) \/ is_min(aggr_fn) \/ aggr_fn = "Count") THEN AccErr(a, "Internal")
    ELSE IF IsSome(a.val) /\ data_type(Unwrap(a.val)) # data_type(value)
         THEN AccErr(a, "TypeMismatch")
    ELSE LET val == IF is_max(aggr_fn)
                    THEN IF IsSome(a.val) THEN Some(ValueMax(Unwrap(a.val), value))
                         ELSE Some(value)
                    ELSE IF is_min(aggr_fn)
                    THEN IF IsSome(a.val) THEN Some(ValueMin(Unwrap(a.val), value))
                         ELSE Some(value)
                    ELSE a.val
         IN AccOk([a EXCEPT !.val = val, !.non_nulls = @ + diff])

\* mutant: Count stores the value it is given
OrdValue_update_count_stores_value(a, aggr_fn, value, diff) ==
    IF ~(is_max(aggr_fn) \/ is_min(aggr_fn) \/ aggr_fn = "Count") THEN AccErr(a, "Internal")
    ELSE IF IsSome(a.val) /\ data_type(Unwrap(a.val)) # data_type(value)
         THEN AccErr(a, "TypeMismatch")
    ELSE IF diff <= 0 /\ (is_max(aggr_fn) \/ is_min(aggr_fn)) THEN AccErr(a, "Internal")
    ELSE LET val == IF is_max(aggr_fn)
                    THEN IF IsSome(a.val) THEN Some(ValueMax(Unwrap(a.val), value))
                         ELSE Some(value)
                    ELSE IF is_min(aggr_fn)
                    THEN IF IsSome(a.val) THEN Some(ValueMin(Unwrap(a.val), value))
                         ELSE Some(value)
                    ELSE Some(value)
         IN AccOk([a EXCEPT !.val = val, !.non_nulls = @ + diff])

\* mutant: non_nulls is counted before the diff of min/max is checked
OrdValue_update_counts_before_check(a, aggr_fn, value, diff) ==
    IF ~(is_max(aggr_fn) \/ is_min(aggr_fn) \/ aggr_fn = "Count") THEN AccErr(a, "Internal")
    ELSE IF IsSome(a.val) /\ data_type(Unwrap(a.val)) # data_type(value)
         THEN AccErr(a, "TypeMismatch")
    ELSE IF diff <= 0 /\ (is_max(aggr_fn) \/ is_min(aggr_fn))
         THEN AccErr([a EXCEPT !.non_nulls = @ + diff], "Internal")
    ELSE LET val == IF is_max(aggr_fn)
                    THEN IF IsSome(a.val) THEN Some(ValueMax(Unwrap(a.val), value))
                         ELSE Some(value)
                    ELSE IF is_min(aggr_fn)
                    THEN IF IsSome(a.val) THEN Some(ValueMin(Unwrap(a.val), value))
                         ELSE Some(value)
                    ELSE a.val
         IN AccOk([a EXCEPT !.val = val, !.non_nulls = @ + diff])

OrdValue_update(a, aggr_fn, value, diff) ==
    IF ~(is_max(aggr_fn) \/ is_min(aggr_fn) \/ aggr_fn = "Count") THEN AccErr(a, "Internal")
    ELSE IF IsSome(a.val) /\ data_type(Unwrap(a.val)) # data_type(value)
         THEN AccErr(a, "TypeMismatch")
    ELSE IF diff <= 0 /\ (is_max(aggr_fn) \/ is_min(aggr_fn)) THEN AccErr(a, "Internal")
    ELSE LET val == IF is_max(aggr_fn)
                    THEN IF IsSome(a.val) THEN Some(ValueMax(Unwrap(a.val), value))
                         ELSE Some(value)
                    ELSE IF is_min(aggr_fn)
                    THEN IF IsSome(a.val) THEN Some(ValueMin(Unwrap(a.val), value))
                         ELSE Some(value)
                    ELSE a.val
         IN AccOk([a EXCEPT !.val = val, !.non_nulls = @ + diff])

OrdValue_eval(a, aggr_fn) == EvalOk(IF IsSome(a.val) THEN Unwrap(a.val) ELSE Null)

\* ---- Accum (enum_dispatch over the variants) ----

Accum_into_state(a) ==
    CASE a.variant = "Bool" -> Bool_into_state(a)
      [] a.variant = "SimpleNumber" -> SimpleNumber_into_state(a)
      [] a.variant = "Float" -> Float_into_state(a)
      [] OTHER -> OrdValue_into_state(a)

Accum_update(a, aggr_fn, value, diff) ==
    CASE a.variant = "Bool" -> Bool_update(a, aggr_fn, value, diff)
      [] a.variant = "SimpleNumber" -> SimpleNumber_update(a, aggr_fn, value, diff)
      [] a.variant = "Float" -> Float_update(a, aggr_fn, value, diff)
      [] OTHER -> OrdValue_update(a, aggr_fn, value, diff)

Accum_eval(a, aggr_fn) ==
    CASE a.variant = "Bool" -> Bool_eval(a, aggr_fn)
      [] a.variant = "SimpleNumber" -> SimpleNumber_eval(a, aggr_fn)
      [] a.variant = "Float" -> Float_eval(a, aggr_fn)
      [] OTHER -> OrdValue_eval(a, aggr_fn)

\* Accum::new_accum
new_accum(aggr_fn) ==
    CASE aggr_fn \in BoolFuncs -> AccOk([variant |-> "Bool", trues |-> 0, falses |-> 0])
      [] aggr_fn \in SimpleNumberFuncs ->
            AccOk([variant |-> "SimpleNumber", accum |-> 0, non_nulls |-> 0])
      [] aggr_fn \in FloatFuncs ->
            AccOk([variant |-> "Float", accum |-> Float("fin", 0), pos_infs |-> 0,
                   neg_infs |-> 0, nans |-> 0, non_nulls |-> 0])
      [] OTHER ->
            IF is_max(aggr_fn) \/ is_min(aggr_fn) \/ aggr_fn = "Count"
            THEN AccOk([variant |-> "OrdValue", val |-> None, non_nulls |-> 0])
            ELSE AccErr(Null, "Internal")

\* Accum::try_into_accum
try_into_accum(aggr_fn, state) ==
    CASE aggr_fn \in BoolFuncs -> Bool_try_from(state)
      [] aggr_fn \in SimpleNumberFuncs -> SimpleNumber_try_from(state)
      [] aggr_fn \in FloatFuncs -> Float_try_from(state)
      [] OTHER ->
            IF is_max(aggr_fn) \/ is_min(aggr_fn) \/ aggr_fn = "Count"
            THEN OrdValue_try_from(state)
            ELSE AccErr(Null, "Internal")

(***************************************************************************)
(* Arrangement and the broadcast channel  (used by src_sink.rs)            *)
(***************************************************************************)

\* Arrangement::get_updates_in_range(..=now): the updates with time <= now
get_updates_in_range(arr, now) == SelectSeq(arr, LAMBDA u : u[2] <= now)

\* the sum of the diffs of the updates of `arr` for `key` with time <= now
RECURSIVE SumUntil(_, _, _)
SumUntil(arr, key, now) ==
    IF arr = <<>> THEN 0
    ELSE (IF Head(arr)[1] = key /\ Head(arr)[2] <= now THEN Head(arr)[3] ELSE 0)
         + SumUntil(Tail(arr), key, now)

\* the updates (key, now, sum) of the keys ks, in that order, without the zero sums
RECURSIVE Coalesced(_, _, _)
Coalesced(arr, ks, now) ==
    IF ks = <<>> THEN <<>>
    ELSE (IF SumUntil(arr, Head(ks), now) = 0 THEN <<>>
          ELSE << <<Head(ks), now, SumUntil(arr, Head(ks), now)>> >>)
         \o Coalesced(arr, Tail(ks), now)

\* Arrangement::compaction_to(now): the updates with time <= now become one update
\* (key, now, sum of diffs) per key, dropped when the sum is zero
compaction_to(arr, now) ==
    Coalesced(arr, RowsAscending({arr[i][1] : i \in 1..Len(arr)}), now)
        \o SelectSeq(arr, LAMBDA u : u[2] > now)

\* broadcast::Sender::send on a channel of capacity `cap`, seen from one receiver:
\* the value is queued; when the receiver already has `cap` values to receive the
\* oldest one is overwritten and counted as missed
broadcast_send(chan, missed, cap, value) ==
    IF Len(chan) < cap
    THEN [chan |-> Append(chan, value), missed |-> missed]
    ELSE [chan |-> Append(Tail(chan), value), missed |-> missed + 1]

\* broadcast::Receiver::try_recv: Err(Lagged(n)) when values were missed (the
\* receiver then continues at the oldest value still held), Ok(value) when a value
\* is waiting, else Err(Closed) when every sender is gone and Err(Empty) otherwise
try_recv(chan, missed, closed) ==
    IF missed > 0 THEN [res |-> "Lagged", value |-> <<>>, chan |-> chan, missed |-> 0]
    ELSE IF chan # <<>>
    THEN [res |-> "Ok", value |-> Head(chan), chan |-> Tail(chan), missed |-> 0]
    ELSE [res |-> IF closed THEN "Closed" ELSE "Empty", value |-> <<>>, chan |-> chan,
          missed |-> 0]

(***************************************************************************)
(* Context::render_source  (src_sink.rs)                                   *)
(***************************************************************************)

\* `while let Ok(update) = src_recv.try_recv() { new_arrive.push(update); }`:
\* the loop ends at the first Err, whichever it is
RECURSIVE DrainReceiver(_, _, _, _)
DrainReceiver(chan, missed, closed, new_arrive) ==
    LET r == try_recv(chan, missed, closed)
    IN IF r.res = "Ok"
       THEN DrainReceiver(r.chan, r.missed, closed, Append(new_arrive, r.value))
       ELSE [chan |-> r.chan, missed |-> r.missed, new_arrive |-> new_arrive,
             stopped_by |-> r.res]

\* mutant of the loop: the newest value is put first
RECURSIVE DrainReceiverNewestFirst(_, _, _, _)
DrainReceiverNewestFirst(chan, missed, closed, new_arrive) ==
    LET r == try_recv(chan, missed, closed)
    IN IF r.res = "Ok"
       THEN DrainReceiverNewestFirst(r.chan, r.missed, closed, <<r.value>> \o new_arrive)
       ELSE [chan |-> r.chan, missed |-> r.missed, new_arrive |-> new_arrive,
             stopped_by |-> r.res]

\* mutant of the closure: the values are received newest first
source_subgraph_newest_first(now, arr, chan, missed, closed) ==
    LET prev_avail == get_updates_in_range(arr, now)
        d          == DrainReceiverNewestFirst(chan, missed, closed, <<>>)
    IN [arr |-> compaction_to(arr, now), chan |-> d.chan, missed |-> d.missed,
        all |-> prev_avail \o d.new_arrive, stopped_by |-> d.stopped_by]

\* the closure given to add_subgraph_source: one run of the source subgraph.
\* `all` is what send.give hands off: the updates of the arrangement up to now,
\* then everything received, whatever its timestamp.
source_subgraph(now, arr, chan, missed, closed) ==
    LET prev_avail == get_updates_in_range(arr, now)
        d          == DrainReceiver(chan, missed, closed, <<>>)
    IN [arr |-> compaction_to(arr, now), chan |-> d.chan, missed |-> d.missed,
        all |-> prev_avail \o d.new_arrive, stopped_by |-> d.stopped_by]

(***************************************************************************)
(* Context::render_sink  (src_sink.rs)                                     *)
(***************************************************************************)

\* data.into_iter().flat_map(|i| i.into_iter()): the rows of the batches in order
RECURSIVE FlatMap(_)
FlatMap(data) == IF data = <<>> THEN <<>> ELSE Head(data) \o FlatMap(Tail(data))

\* broadcast::Sender::send: Err(SendError) when the channel has no receiver at
\* that moment, else Ok and the value is queued for the receivers
sender_send(has_receiver) == IF has_receiver THEN "Ok" ELSE "Err"

\* mutant of the loop: the first failed send ends the loop (`sender.send(row)?`)
RECURSIVE SendRowsUntilError(_, _, _)
SendRowsUntilError(rows, live, i) ==
    IF i > Len(rows) THEN [sent |-> <<>>, results |-> <<>>, received |-> <<>>]
    ELSE LET res  == sender_send(live[i])
             rest == IF res = "Ok" THEN SendRowsUntilError(rows, live, i + 1)
                     ELSE [sent |-> <<>>, results |-> <<>>, received |-> <<>>]
         IN [sent     |-> <<rows[i]>> \o rest.sent,
             results  |-> <<res>> \o rest.results,
             received |-> (IF res = "Ok" THEN <<rows[i]>> ELSE <<>>) \o rest.received]

\* `for row in ... { let _ = sender.send(row); }` from the i-th row on: every row
\* is sent, the result of send is dropped. live[i] says whether the broadcast has
\* a receiver when the i-th row is sent.
RECURSIVE SendRows(_, _, _)
SendRows(rows, live, i) ==
    IF i > Len(rows) THEN [sent |-> <<>>, results |-> <<>>, received |-> <<>>]
    ELSE LET res  == sender_send(live[i])
             rest == SendRows(rows, live, i + 1)
         IN [sent     |-> <<rows[i]>> \o rest.sent,
             results  |-> <<res>> \o rest.results,
             received |-> (IF res = "Ok" THEN <<rows[i]>> ELSE <<>>) \o rest.received]

\* mutant of the closure: it returns at the first failed send
sink_subgraph_stops_at_error(data, live) == SendRowsUntilError(FlatMap(data), live, 1)

\* the closure given to add_subgraph_sink: one run of the sink subgraph on the
\* batches `data` taken from the input port
sink_subgraph(data, live) == SendRows(FlatMap(data), live, 1)

(***************************************************************************)
(* DiffMap: the calls                                                      *)
(***************************************************************************)

MaxKey == 3
MaxVal == 2
MaxTick == 1
MaxDmSteps == 5

\* K: rows of one column
DmKeys == {<<i>> : i \in 1..MaxKey}

\* V
DmVals == 1..MaxVal

DmTicks == 0..MaxTick

DmNoCall == [op |-> "none", prev_op |-> "none", key |-> <<>>, value |-> None, tick |-> 0,
             ret |-> None, out |-> <<>>, pre |-> DiffMap_default,
             was_prev |-> EmptyMap, was_edited |-> {}]

\* the running sums after the records of `out` are added
RECURSIVE AddEmitted(_, _)
AddEmitted(sums, out) ==
    IF out = <<>> THEN sums
    ELSE LET r == Head(out)
         IN AddEmitted([sums EXCEPT ![r[1]] = @ + r[3]], Tail(out))

DmInit ==
    /\ dmap = DiffMap_default
    /\ dm_last = DmNoCall
    /\ dm_prev = EmptyMap
    /\ dm_edited = [k \in DmKeys |-> 0]
    /\ dm_emitted = [kv \in DmKeys \X DmVals |-> 0]
    /\ dm_steps = 0

DmInsert ==
    /\ dm_steps < MaxDmSteps
    /\ \E k \in DmKeys, v \in DmVals :
         LET r == DiffMap_insert(dmap, k, v)
         IN /\ dmap' = r.dm
            /\ dm_last' = [op |-> "insert", prev_op |-> dm_last.op, key |-> k,
                           value |-> Some(v), tick |-> 0, ret |-> r.ret, out |-> <<>>,
                           pre |-> dmap, was_prev |-> dm_prev,
                           was_edited |-> {x \in DmKeys : dm_edited[x] > 0}]
            /\ dm_edited' = [dm_edited EXCEPT ![k] = @ + 1]
    /\ dm_steps' = dm_steps + 1
    /\ UNCHANGED <<dm_prev, dm_emitted, dm_others>>

DmRemove ==
    /\ dm_steps < MaxDmSteps
    /\ \E k \in DmKeys :
         LET r == DiffMap_remove(dmap, k)
         IN /\ dmap' = r.dm
            /\ dm_last' = [op |-> "remove", prev_op |-> dm_last.op, key |-> k,
                           value |-> None, tick |-> 0, ret |-> r.ret, out |-> <<>>,
                           pre |-> dmap, was_prev |-> dm_prev,
                           was_edited |-> {x \in DmKeys : dm_edited[x] > 0}]
            /\ dm_edited' = [dm_edited EXCEPT ![k] = @ + 1]
    /\ dm_steps' = dm_steps + 1
    /\ UNCHANGED <<dm_prev, dm_emitted, dm_others>>

DmGenDiff ==
    /\ dm_steps < MaxDmSteps
    /\ \E t \in DmTicks :
         LET r == DiffMap_gen_diff(dmap, t)
         IN /\ dmap' = r.dm
            /\ dm_last' = [op |-> "gen_diff", prev_op |-> dm_last.op, key |-> <<>>,
                           value |-> None, tick |-> t, ret |-> None, out |-> r.out,
                           pre |-> dmap, was_prev |-> dm_prev,
                           was_edited |-> {x \in DmKeys : dm_edited[x] > 0}]
            /\ dm_emitted' = AddEmitted(dm_emitted, r.out)
            /\ dm_prev' = r.dm.inner
    /\ dm_edited' = [k \in DmKeys |-> 0]
    /\ dm_steps' = dm_steps + 1
    /\ UNCHANGED dm_others

DmNext == DmInsert \/ DmRemove \/ DmGenDiff

(***************************************************************************)
(* ExpiringKeyValueState: the calls                                        *)
(***************************************************************************)

Ttl == 1
MaxCurrent == 3
MaxEkvSteps == 3

\* key rows: column 0 is the event time, column 1 tells keys of one event time apart
EkvKeys == {<<0, 0>>, <<0, 1>>, <<1, 0>>, <<1, 1>>}

\* value rows
EkvVals == {<<1>>, <<2>>}

\* the `current` argument: the worker's time
EkvTimes == 0..MaxCurrent

EkvNoCall == [op |-> "none", prev_op |-> "none", current |-> 0, key |-> <<>>, value |-> <<>>,
              ret |-> Ok(None), cnt |-> 0, out |-> <<>>,
              pre |-> ExpiringKeyValueState_default]

EkvInit ==
    /\ ekv \in {ExpiringKeyValueState_new(Some(Ttl), "Column0"),
                 ExpiringKeyValueState_new(None, "Column0"),
                 ExpiringKeyValueState_default}
    /\ ekv_last = EkvNoCall
    /\ ekv_steps = 0

EkvInsert ==
    /\ ekv_steps < MaxEkvSteps
    /\ \E current \in EkvTimes, k \in EkvKeys, v \in EkvVals :
         LET r == ExpiringKeyValueState_insert(ekv, current, k, v)
         IN /\ ekv' = r.s
            /\ ekv_last' = [op |-> "insert", prev_op |-> ekv_last.op, current |-> current,
                            key |-> k, value |-> v, ret |-> r.ret, cnt |-> 0, out |-> <<>>,
                            pre |-> ekv]
    /\ ekv_steps' = ekv_steps + 1
    /\ UNCHANGED ekv_others

EkvRemove ==
    /\ ekv_steps < MaxEkvSteps
    /\ \E current \in EkvTimes, k \in EkvKeys :
         LET r == ExpiringKeyValueState_remove(ekv, current, k)
         IN /\ ekv' = r.s
            /\ ekv_last' = [op |-> "remove", prev_op |-> ekv_last.op, current |-> current,
                            key |-> k, value |-> <<>>, ret |-> r.ret, cnt |-> 0, out |-> <<>>,
                            pre |-> ekv]
    /\ ekv_steps' = ekv_steps + 1
    /\ UNCHANGED ekv_others

EkvTruncExpired ==
    /\ ekv_steps < MaxEkvSteps
    /\ \E current \in EkvTimes :
         LET r == trunc_expired(ekv, current)
         IN /\ ekv' = r.s
            /\ ekv_last' = [op |-> "trunc_expired", prev_op |-> ekv_last.op,
                            current |-> current, key |-> <<>>, value |-> <<>>,
                            ret |-> Ok(None), cnt |-> r.cnt, out |-> <<>>, pre |-> ekv]
    /\ ekv_steps' = ekv_steps + 1
    /\ UNCHANGED ekv_others

EkvGenDiff ==
    /\ ekv_steps < MaxEkvSteps
    /\ \E tick \in DmTicks :
         LET r == ExpiringKeyValueState_gen_diff(ekv, tick)
         IN /\ ekv' = r.s
            /\ ekv_last' = [op |-> "gen_diff", prev_op |-> ekv_last.op, current |-> tick,
                            key |-> <<>>, value |-> <<>>, ret |-> Ok(None), cnt |-> 0,
                            out |-> r.out, pre |-> ekv]
    /\ ekv_steps' = ekv_steps + 1
    /\ UNCHANGED ekv_others

EkvNext == EkvInsert \/ EkvRemove \/ EkvTruncExpired \/ EkvGenDiff

\* the ExpiringKeyValueState is not in use
EkvIdle ==
    /\ ekv = ExpiringKeyValueState_default
    /\ ekv_last = EkvNoCall
    /\ ekv_steps = 0

\* the DiffMap is not in use
DmIdle == DmInit

(***************************************************************************)
(* TemporalFilterState: the calls                                          *)
(***************************************************************************)

\* the timestamps given to the calls are 1..MaxTfsTime
MaxTfsTime == 3

MaxTfsSteps == 5

TfsRows == {<<1>>, <<2>>}

TfsTimes == 1..MaxTfsTime

\* Diff: insertion, retraction, and the no-op 0
TfsDiffs == {-1, 0, 1}

TfsNoCall == [op |-> "none", prev_op |-> "none", rows |-> <<>>, time |-> 0, ret |-> <<>>,
              pre |-> TemporalFilterState_default, was_order |-> EmptyMap]

\* history: the creation order of the row entries of each bucket after one loop
\* iteration of append_delta_row on the spine `spine`
OrderAfterAppend(order, spine, row, time, diff) ==
    LET was == IF time \in DOMAIN order THEN order[time] ELSE <<>>
        now == IF time \in DOMAIN spine /\ row \in DOMAIN spine[time]
               THEN IF spine[time][row] + diff = 0
                    THEN SelectSeq(was, LAMBDA x : x # row)
                    ELSE was
               ELSE Append(was, row)
    IN MapInsert(order, time, now)

\* history: no trunc_until_inclusive call made on the contents `s` yet
NoRun(s) == [base |-> s, out |-> <<>>, until |-> 0, n |-> 0]

\* history: the run after trunc_until_inclusive(time) returned `ret` on the
\* contents `s`: a strictly later time continues the run, another one starts a
\* new run from `s`
RunAfterTrunc(run, s, time, ret) ==
    IF run.n = 0 \/ time > run.until
    THEN [base |-> run.base, out |-> run.out \o ret, until |-> time, n |-> run.n + 1]
    ELSE [base |-> s, out |-> ret, until |-> time, n |-> 1]

TfsInit ==
    /\ tfs = TemporalFilterState_default
    /\ tfs_last = TfsNoCall
    /\ tfs_order = EmptyMap
    /\ tfs_sum = [p \in TfsTimes \X TfsRows |-> 0]
    /\ tfs_run = NoRun(TemporalFilterState_default)
    /\ tfs_steps = 0

TfsAppendDeltaRow ==
    /\ tfs_steps < MaxTfsSteps
    /\ \E row \in TfsRows, time \in TfsTimes, diff \in TfsDiffs :
         /\ tfs' = append_delta_row(tfs, << <<row, time, diff>> >>)
         /\ tfs_last' = [op |-> "append_delta_row", prev_op |-> tfs_last.op,
                         rows |-> << <<row, time, diff>> >>, time |-> 0, ret |-> <<>>,
                         pre |-> tfs, was_order |-> tfs_order]
         /\ tfs_order' = OrderAfterAppend(tfs_order, tfs.spine, row, time, diff)
         /\ tfs_sum' = [tfs_sum EXCEPT ![<<time, row>>] = @ + diff]
         /\ tfs_run' = NoRun(tfs')
    /\ tfs_steps' = tfs_steps + 1
    /\ UNCHANGED tfs_others

TfsTruncUntilInclusive ==
    /\ tfs_steps < MaxTfsSteps
    /\ \E time \in TfsTimes :
         LET r == trunc_until_inclusive(tfs, time)
         IN /\ tfs' = r.s
            /\ tfs_last' = [op |-> "trunc_until_inclusive", prev_op |-> tfs_last.op,
                            rows |-> <<>>, time |-> time, ret |-> r.ret,
                            pre |-> tfs, was_order |-> tfs_order]
            /\ tfs_order' = [t \in {x \in DOMAIN tfs_order : x > time} |-> tfs_order[t]]
            /\ tfs_sum' = [p \in TfsTimes \X TfsRows |-> IF p[1] <= time THEN 0 ELSE tfs_sum[p]]
            /\ tfs_run' = RunAfterTrunc(tfs_run, tfs, time, r.ret)
    /\ tfs_steps' = tfs_steps + 1
    /\ UNCHANGED tfs_others

TfsNext == TfsAppendDeltaRow \/ TfsTruncUntilInclusive

\* the TemporalFilterState is not in use
TfsIdle == TfsInit

(***************************************************************************)
(* Accum: the calls                                                        *)
(***************************************************************************)

MaxAccSteps == 3

\* the values given to update: booleans, integers of several widths, floats with
\* NaN and the infinities, datetimes, Null
BoolValues == {Boolean(TRUE), Boolean(FALSE)}

IntValues ==
    {Val("Int16", 1), Val("Int32", 1), Val("Int32", 2), Val("Int64", 1),
     Val("UInt32", 1), Val("UInt64", 2)}

FloatValues ==
    {Val("Float32", 1), Val("Float32", 2), Val("Float64", 1), Val("Float64", 2),
     Val("Float64", 2 ^ F64_MANTISSA_DIGITS),
     FloatValue("Float64", Float("nan", 0)), FloatValue("Float64", Float("pinf", 0)),
     FloatValue("Float32", Float("ninf", 0))}

DateTimeValues == {Val("DateTime", 0), Val("DateTime", 1)}

AccValues == {Null} \cup BoolValues \cup IntValues \cup FloatValues \cup DateTimeValues

\* the values an accumulator made for aggr_fn is updated with: the values of the
\* kind the function is about, and Null and one or two values of another kind
AccValuesFor(aggr_fn) ==
    CASE aggr_fn \in BoolFuncs -> BoolValues \cup {Null, Val("Int32", 1)}
      [] aggr_fn \in SimpleNumberFuncs -> IntValues \cup {Null, Val("Float64", 1)}
      [] aggr_fn \in FloatFuncs -> FloatValues \cup {Null, Val("Int32", 1)}
      [] aggr_fn \in {"MaxInt32", "MinInt32"} ->
            {Val("Int32", 1), Val("Int32", 2), Val("Int64", 1), Val("Float32", 1), Null}
      [] aggr_fn = "MaxFloat32" ->
            {v \in FloatValues : v.t = "Float32"} \cup {Val("Float64", 1), Val("Int32", 1), Null}
      [] aggr_fn = "MaxDateTime" -> DateTimeValues \cup {Val("Int32", 1), Null}
      [] OTHER -> {Val("Int32", 1), Val("Int32", 2), Boolean(TRUE), Val("Float64", 1), Null}

\* the diffs given to update
AccDiffs == {-1, 0, 1}

AccNoCall ==
    [op |-> "none", value |-> Null, diff |-> 0, state |-> <<>>, ok |-> TRUE, err |-> "",
     pre |-> Null, pre_restored |-> FALSE]

\* let mut acc = Accum::new_accum(&aggr_fn).unwrap();
AccInit ==
    /\ acc_fn \in AggregateFuncs
    /\ acc = new_accum(acc_fn).acc
    /\ acc_last = AccNoCall
    /\ acc_restored = FALSE
    /\ acc_sums = [v \in AccValues |-> 0]
    /\ acc_seen = {}
    /\ acc_steps = 0

\* acc.update(&aggr_fn, value, diff): a failed update returns before it changes acc
AccUpdate ==
    /\ acc_steps < MaxAccSteps
    /\ \E value \in AccValuesFor(acc_fn), diff \in AccDiffs :
          LET r == Accum_update(acc, acc_fn, value, diff)
          IN /\ acc' = r.acc
             /\ acc_last' = [op |-> "update", value |-> value, diff |-> diff,
                             state |-> <<>>, ok |-> r.ok, err |-> r.err, pre |-> acc,
                             pre_restored |-> acc_restored]
             /\ acc_sums' = IF r.ok THEN [acc_sums EXCEPT ![value] = @ + diff] ELSE acc_sums
             /\ acc_seen' = IF r.ok THEN acc_seen \cup {value} ELSE acc_seen
    /\ acc_steps' = acc_steps + 1
    /\ UNCHANGED <<acc_fn, acc_restored>>
    /\ UNCHANGED acc_others

\* let acc = Accum::try_into_accum(&aggr_fn, acc.into_state()), kept when it is Ok
AccRestore ==
    /\ acc_steps < MaxAccSteps
    /\ LET r == try_into_accum(acc_fn, Accum_into_state(acc))
       IN /\ acc' = IF r.ok THEN r.acc ELSE acc
          /\ acc_last' = [op |-> "restore", value |-> Null, diff |-> 0,
                          state |-> Accum_into_state(acc), ok |-> r.ok, err |-> r.err, pre |-> acc,
                             pre_restored |-> acc_restored]
    /\ acc_restored' = TRUE
    /\ acc_steps' = acc_steps + 1
    /\ UNCHANGED <<acc_fn, acc_sums, acc_seen>>
    /\ UNCHANGED acc_others

\* the lists of values that differ from a state list in its length or in one
\* element, which is replaced by Null
MalformedStates(state) ==
    {SubSeq(state, 1, Len(state) - 1), Append(state, Int64(0))}
        \cup {[state EXCEPT ![i] = Null] : i \in 1..Len(state)}

\* Accum::try_into_accum(&aggr_fn, state) with a state list that into_state() did
\* not produce; the result is looked at and dropped, acc stays as it is
AccTryIntoAccum ==
    /\ acc_steps < MaxAccSteps
    /\ \E state \in MalformedStates(Accum_into_state(acc)) :
          LET r == try_into_accum(acc_fn, state)
          IN acc_last' = [op |-> "try_into_accum", value |-> Null, diff |-> 0,
                          state |-> state, ok |-> r.ok, err |-> r.err, pre |-> acc,
                          pre_restored |-> acc_restored]
    /\ acc_steps' = acc_steps + 1
    /\ UNCHANGED <<acc_fn, acc, acc_restored, acc_sums, acc_seen>>
    /\ UNCHANGED acc_others

AccNext == AccUpdate \/ AccRestore \/ AccTryIntoAccum

\* the accumulator while another structure is exercised
AccIdle ==
    /\ acc_fn = "Count"
    /\ acc = new_accum("Count").acc
    /\ acc_last = AccNoCall
    /\ acc_restored = FALSE
    /\ acc_sums = [v \in AccValues |-> 0]
    /\ acc_seen = {}
    /\ acc_steps = 0

(***************************************************************************)
(* Context::render_source: the steps                                       *)
(***************************************************************************)

\* capacity of the source broadcast
SrcCapacity == 2

\* the worker's current time goes from 0 to MaxSrcNow
MaxSrcNow == 1

MaxSrcSteps == 5

\* the DiffRows pushed: insertions of Row[1] and retractions of Row[2], with
\* timestamps up to one past the latest current time
SrcDiffRows ==
    {<<<<1>>, t, 1>> : t \in 0..(MaxSrcNow + 1)} \cup {<<<<2>>, t, -1>> : t \in 0..(MaxSrcNow + 1)}

SrcNoStep == [op |-> "none", row |-> <<>>, now |-> 0, all |-> <<>>, stopped_by |-> "",
              pre_chan |-> <<>>, pre_missed |-> 0]

\* render_source: a new arrangement that nothing has written to, the receiver of
\* a broadcast that holds nothing for it yet
SrcInit ==
    /\ src_now = 0
    /\ src_arr = <<>>
    /\ src_chan = <<>>
    /\ src_missed = 0
    /\ src_closed = FALSE
    /\ src_last = SrcNoStep
    /\ src_pushed = <<>>
    /\ src_handed = <<>>
    /\ src_lagged = FALSE
    /\ src_steps = 0

\* a producer sends a DiffRow to the source broadcast
SrcPush ==
    /\ src_steps < MaxSrcSteps
    /\ ~src_closed
    /\ \E row \in SrcDiffRows :
         LET r == broadcast_send(src_chan, src_missed, SrcCapacity, row)
         IN /\ src_chan' = r.chan
            /\ src_missed' = r.missed
            /\ src_lagged' = (src_lagged \/ r.missed > 0)
            /\ src_pushed' = Append(src_pushed, row)
            /\ src_last' = [SrcNoStep EXCEPT !.op = "push", !.row = row, !.now = src_now]
    /\ src_steps' = src_steps + 1
    /\ UNCHANGED <<src_now, src_arr, src_closed, src_handed>>
    /\ UNCHANGED src_others

\* every Sender of the source broadcast is dropped
SrcClose ==
    /\ src_steps < MaxSrcSteps
    /\ ~src_closed
    /\ src_closed' = TRUE
    /\ src_last' = [SrcNoStep EXCEPT !.op = "close", !.now = src_now]
    /\ src_steps' = src_steps + 1
    /\ UNCHANGED <<src_now, src_arr, src_chan, src_missed, src_pushed, src_handed, src_lagged>>
    /\ UNCHANGED src_others

\* the worker advances its current time
SrcAdvanceTime ==
    /\ src_steps < MaxSrcSteps
    /\ src_now < MaxSrcNow
    /\ src_now' = src_now + 1
    /\ src_last' = [SrcNoStep EXCEPT !.op = "advance", !.now = src_now + 1]
    /\ src_steps' = src_steps + 1
    /\ UNCHANGED <<src_arr, src_chan, src_missed, src_closed, src_pushed, src_handed, src_lagged>>
    /\ UNCHANGED src_others

\* the source subgraph is run once
SrcRun ==
    /\ src_steps < MaxSrcSteps
    /\ LET r == source_subgraph(src_now, src_arr, src_chan, src_missed, src_closed)
       IN /\ src_arr' = r.arr
          /\ src_chan' = r.chan
          /\ src_missed' = r.missed
          /\ src_handed' = src_handed \o r.all
          /\ src_last' = [op |-> "run", row |-> <<>>, now |-> src_now, all |-> r.all,
                          stopped_by |-> r.stopped_by, pre_chan |-> src_chan,
                          pre_missed |-> src_missed]
    /\ src_steps' = src_steps + 1
    /\ UNCHANGED <<src_now, src_closed, src_pushed, src_lagged>>
    /\ UNCHANGED src_others

SrcNext == SrcPush \/ SrcClose \/ SrcAdvanceTime \/ SrcRun

\* the source is not in use
SrcIdle == SrcInit

(***************************************************************************)
(* Context::render_sink: the runs                                          *)
(***************************************************************************)

MaxSinkSteps == 3

\* what recv.take_inner() returns: no batch, one batch, two batches, an empty batch
SinkData ==
    { <<>>,
      << <<<<<<1>>, 0, 1>>>> >>,
      << <<<<<<1>>, 0, 1>>, <<<<2>>, 0, 1>>>> >>,
      << <<<<<<2>>, 1, 1>>>>, <<<<<<1>>, 0, -1>>>> >>,
      << <<<<<<1>>, 0, 1>>, <<<<2>>, 0, 1>>>>, <<<<<<1>>, 1, -1>>>> >>,
      << <<>>, <<<<<<2>>, 1, -1>>, <<<<1>>, 1, 1>>>> >> }

SinkNoRun == [op |-> "none", prev |-> "none", data |-> <<>>, live |-> <<>>, sent |-> <<>>,
              results |-> <<>>]

SinkInit ==
    /\ sink_last = SinkNoRun
    /\ sink_received = <<>>
    /\ sink_steps = 0

\* the sink subgraph is run once; consumers subscribe to and drop their receivers
\* of the sink broadcast at any time, so each send finds a receiver or not
SinkRun ==
    /\ sink_steps < MaxSinkSteps
    /\ \E data \in SinkData :
         \E live \in [1..Len(FlatMap(data)) -> BOOLEAN] :
            LET r == sink_subgraph(data, live)
            IN /\ sink_last' = [op |-> "run",
                                prev |-> IF \E i \in 1..Len(sink_last.results) : sink_last.results[i] = "Err"
                                         THEN "run with a failed send" ELSE sink_last.op,
                                data |-> data, live |-> live, sent |-> r.sent,
                                results |-> r.results]
               /\ sink_received' = sink_received \o r.received
    /\ sink_steps' = sink_steps + 1
    /\ UNCHANGED sink_others

SinkNext == SinkRun

\* the sink is not in use
SinkIdle == SinkInit

(***************************************************************************)
(* client Error  (src/client/src/error.rs)                                 *)
(***************************************************************************)

\* tonic::Code
TonicCodes ==
    {"Code::Ok", "Code::Cancelled", "Code::Unknown", "Code::InvalidArgument",
     "Code::DeadlineExceeded", "Code::NotFound", "Code::AlreadyExists",
     "Code::PermissionDenied", "Code::ResourceExhausted", "Code::FailedPrecondition",
     "Code::Aborted", "Code::OutOfRange", "Code::Unimplemented", "Code::Internal",
     "Code::Unavailable", "Code::DataLoss", "Code::Unauthenticated"}

\* some of common_error::status_code::StatusCode
StatusCodes ==
    {"StatusCode::Unknown", "StatusCode::Internal", "StatusCode::Unexpected",
     "StatusCode::Cancelled"}

\* the variants of Error with the fields a match can look at: tonic_code of
\* FlightGet, code of RegionServer, FlowServer and Server; "" where a variant
\* has no such field
ClientErrors ==
    [variant : {"IllegalFlightMessages", "ConvertFlightData", "IllegalGrpcClientState",
                "MissingField", "CreateChannel", "CreateTlsChannel",
                "IllegalDatabaseResponse", "InvalidAscii"},
     code : {""}, tonic_code : {""}]
    \cup [variant : {"FlightGet"}, code : {""}, tonic_code : TonicCodes]
    \cup [variant : {"RegionServer", "FlowServer"}, code : TonicCodes, tonic_code : {""}]
    \cup [variant : {"Server"}, code : StatusCodes, tonic_code : {""}]

\* mutant: a FlowServer error with one of the four codes is retried too
should_retry_flow_server_too(e) ==
    /\ e.variant \in {"RegionServer", "FlowServer"}
    /\ e.code \in {"Code::Cancelled", "Code::DeadlineExceeded", "Code::Unavailable",
                    "Code::Unknown"}

\* Error::should_retry: matches! on RegionServer with one of four codes
should_retry(e) ==
    /\ e.variant = "RegionServer"
    /\ e.code \in {"Code::Cancelled", "Code::DeadlineExceeded", "Code::Unavailable",
                    "Code::Unknown"}

MaxCliSteps == 2

CliNoCall == [op |-> "none", err |-> [variant |-> "", code |-> "", tonic_code |-> ""],
              ret |-> FALSE]

CliInit ==
    /\ cli_last = CliNoCall
    /\ cli_steps = 0

\* e.should_retry() on an error a request returned
CliShouldRetry ==
    /\ cli_steps < MaxCliSteps
    /\ \E e \in ClientErrors :
          cli_last' = [op |-> "should_retry", err |-> e, ret |-> should_retry(e)]
    /\ cli_steps' = cli_steps + 1
    /\ UNCHANGED cli_others

CliNext == CliShouldRetry

\* no client error is looked at
CliIdle == CliInit

(***************************************************************************)
(* ErrorInfoHeader  (src/common/error/src/lib.rs)                          *)
(* A String is the sequence of its code points, a HeaderValue the sequence *)
(* of its bytes.                                                           *)
(***************************************************************************)

\* the lower-case hexadecimal digit of d < 16, as a character
HexDigit(d) == IF d < 10 THEN 48 + d ELSE 87 + d

\* char::escape_unicode writes the code point with as few hex digits as it has
RECURSIVE ToHex(_)
ToHex(n) == IF n < 16 THEN <<HexDigit(n)>> ELSE Append(ToHex(n \div 16), HexDigit(n % 16))

\* u32 to its decimal digits: HeaderValue::from(u32)
RECURSIVE ToDecimal(_)
ToDecimal(n) == IF n < 10 THEN <<48 + n>> ELSE Append(ToDecimal(n \div 10), 48 + (n % 10))

\* char::escape_default: \t \r \n \' \" \\ are escaped with a backslash, the
\* printable ASCII characters 0x20..0x7e stay, every other one becomes \u{hex}
char_escape_default(c) ==
    CASE c = 9 -> <<92, 116>>
      [] c = 13 -> <<92, 114>>
      [] c = 10 -> <<92, 110>>
      [] c = 39 -> <<92, 39>>
      [] c = 34 -> <<92, 34>>
      [] c = 92 -> <<92, 92>>
      [] c >= 32 /\ c <= 126 -> <<c>>
      [] OTHER -> <<92, 117, 123>> \o ToHex(c) \o <<125>>

\* str::escape_default().to_string()
RECURSIVE escape_default(_)
escape_default(str) ==
    IF str = <<>> THEN <<>>
    ELSE char_escape_default(Head(str)) \o escape_default(Tail(str))

\* char::to_digit(radix): -1 when the character is no digit of the radix
DigitValue(ch, radix) ==
    LET d == IF ch >= 48 /\ ch <= 57 THEN ch - 48
             ELSE IF ch >= 97 /\ ch <= 122 THEN ch - 87
             ELSE IF ch >= 65 /\ ch <= 90 THEN ch - 55
             ELSE -1
    IN IF d >= 0 /\ d < radix THEN d ELSE -1

RECURSIVE DigitsValue(_, _, _)
DigitsValue(digits, radix, sofar) ==
    IF digits = <<>> THEN sofar
    ELSE DigitsValue(Tail(digits), radix, sofar * radix + DigitValue(Head(digits), radix))

\* from_str_radix of an unsigned integer: an optional '+' and at least one
\* digit; more than seven digits are an overflow in the model
from_str_radix(src, radix) ==
    LET digits == IF src # <<>> /\ Head(src) = 43 THEN Tail(src) ELSE src
    IN IF digits = <<>> \/ Len(digits) > 7
          \/ \E i \in 1..Len(digits) : DigitValue(digits[i], radix) < 0
       THEN [ok |-> FALSE, val |-> 0]
       ELSE [ok |-> TRUE, val |-> DigitsValue(digits, radix, 0)]

\* char::from_u32: no surrogate and at most 0x10FFFF
char_from_u32(parsed) ==
    IF parsed.ok /\ (parsed.val < 55296 \/ (parsed.val > 57343 /\ parsed.val <= 1114111))
    THEN parsed
    ELSE [ok |-> FALSE, val |-> 0]

\* the index of the first '}' of s, 0 when it has none
FirstBrace(s) ==
    IF \E i \in 1..Len(s) : s[i] = 125
    THEN CHOOSE i \in 1..Len(s) : s[i] = 125 /\ \A j \in 1..(i - 1) : s[j] # 125
    ELSE 0

\* the number of octal digits an escape \c... takes after its first one: up to
\* two after 0..3, up to one after 4..7
OctalMore(c, rest) ==
    LET max == IF c <= 51 THEN 2 ELSE 1
        one == rest # <<>> /\ DigitValue(rest[1], 8) >= 0
        two == one /\ Len(rest) >= 2 /\ DigitValue(rest[2], 8) >= 0
    IN IF two /\ max = 2 THEN 2 ELSE IF one THEN 1 ELSE 0

\* unescaper::unescape: [ok, val]. After a backslash: b f n r t ' " \ stand for
\* one character, u for \u{hex} or \uXXXX, x for \xXX, an octal digit for an
\* octal escape; anything else, and a string that ends inside an escape, fails.
RECURSIVE unescape(_)
unescape(s) ==
    IF s = <<>> THEN [ok |-> TRUE, val |-> <<>>]
    ELSE IF Head(s) # 92
    THEN LET r == unescape(Tail(s))
         IN IF r.ok THEN [ok |-> TRUE, val |-> <<Head(s)>> \o r.val] ELSE r
    ELSE IF Len(s) < 2 THEN [ok |-> FALSE, val |-> <<>>]
    ELSE LET c    == s[2]
             rest == SubSeq(s, 3, Len(s))
             \* [ok, val, used]: the character and the length of what follows c
             one ==
                 CASE c = 98 -> [ok |-> TRUE, val |-> 8, used |-> 0]
                   [] c = 102 -> [ok |-> TRUE, val |-> 12, used |-> 0]
                   [] c = 110 -> [ok |-> TRUE, val |-> 10, used |-> 0]
                   [] c = 114 -> [ok |-> TRUE, val |-> 13, used |-> 0]
                   [] c = 116 -> [ok |-> TRUE, val |-> 9, used |-> 0]
                   [] c \in {39, 34, 92} -> [ok |-> TRUE, val |-> c, used |-> 0]
                   [] c = 117 ->
                        IF rest = <<>> THEN [ok |-> FALSE, val |-> 0, used |-> 0]
                        ELSE IF rest[1] = 123
                        THEN LET j == FirstBrace(rest)
                                 p == IF j = 0 THEN [ok |-> FALSE, val |-> 0]
                                      ELSE char_from_u32(from_str_radix(SubSeq(rest, 2, j - 1), 16))
                             IN [ok |-> p.ok, val |-> p.val, used |-> j]
                        ELSE LET p == IF Len(rest) < 4 THEN [ok |-> FALSE, val |-> 0]
                                      ELSE char_from_u32(from_str_radix(SubSeq(rest, 1, 4), 16))
                             IN [ok |-> p.ok, val |-> p.val, used |-> 4]
                   [] c = 120 ->
                        LET p == IF Len(rest) < 2 THEN [ok |-> FALSE, val |-> 0]
                                 ELSE from_str_radix(SubSeq(rest, 1, 2), 16)
                        IN [ok |-> p.ok, val |-> p.val, used |-> 2]
                   [] c >= 48 /\ c <= 55 ->
                        LET n == OctalMore(c, rest)
                            p == char_from_u32(from_str_radix(<<c>> \o SubSeq(rest, 1, n), 8))
                        IN [ok |-> p.ok, val |-> p.val, used |-> n]
                   [] OTHER -> [ok |-> FALSE, val |-> 0, used |-> 0]
         IN IF ~one.ok THEN [ok |-> FALSE, val |-> <<>>]
            ELSE LET r == unescape(SubSeq(rest, one.used + 1, Len(rest)))
                 IN IF r.ok THEN [ok |-> TRUE, val |-> <<one.val>> \o r.val] ELSE r

\* String::from_utf8_lossy: U+FFFD for a byte that is in no UTF-8 sequence. The
\* only byte above 0x7f in the header values of the model is 0xff.
from_utf8_lossy(bytes) == [i \in 1..Len(bytes) |-> IF bytes[i] >= 128 THEN 65533 ELSE bytes[i]]

\* HeaderValue::to_str: only visible ASCII and the tab
to_str(bytes) ==
    IF \A i \in 1..Len(bytes) : (bytes[i] >= 32 /\ bytes[i] < 127) \/ bytes[i] = 9
    THEN [ok |-> TRUE, val |-> bytes]
    ELSE [ok |-> FALSE, val |-> <<>>]

ErrorInfoHeader(code, msg, stack_errors) ==
    [code |-> code, msg |-> msg, stack_errors |-> stack_errors]

\* mutant: the stack frames are written last to first
ErrorInfoHeader_encode_frames_reversed(info) ==
    <<ToDecimal(info.code), escape_default(info.msg)>>
        \o [i \in 1..Len(info.stack_errors) |->
                escape_default(info.stack_errors[Len(info.stack_errors) + 1 - i])]

\* Header::encode: the code, the escaped msg, one escaped value per stack frame
ErrorInfoHeader_encode(info) ==
    <<ToDecimal(info.code), escape_default(info.msg)>>
        \o [i \in 1..Len(info.stack_errors) |-> escape_default(info.stack_errors[i])]

\* mutant: a value that does not unescape is taken as it is
ErrorInfoHeader_decode_keeps_bad_escape(values) ==
    IF values = <<>> THEN None
    ELSE LET code == IF to_str(values[1]).ok THEN from_str_radix(values[1], 10)
                     ELSE [ok |-> FALSE, val |-> 0]
         IN IF ~code.ok \/ Len(values) < 2 THEN None
            ELSE LET lenient(v) == IF unescape(from_utf8_lossy(v)).ok
                                   THEN unescape(from_utf8_lossy(v)).val
                                   ELSE from_utf8_lossy(v)
                 IN Some(ErrorInfoHeader(code.val, lenient(values[2]),
                            [i \in 1..(Len(values) - 2) |-> lenient(values[i + 2])]))

\* Header::decode, None for Err(invalid): the first value is the code, the second
\* the msg, the rest the stack frames
ErrorInfoHeader_decode(values) ==
    IF values = <<>> THEN None
    ELSE LET code == IF to_str(values[1]).ok THEN from_str_radix(values[1], 10)
                     ELSE [ok |-> FALSE, val |-> 0]
         IN IF ~code.ok \/ Len(values) < 2 THEN None
            ELSE LET stack == [i \in 1..(Len(values) - 2) |->
                                  unescape(from_utf8_lossy(values[i + 2]))]
                     msg   == unescape(from_utf8_lossy(values[2]))
                 IN IF (\E i \in 1..Len(stack) : ~stack[i].ok) \/ ~msg.ok THEN None
                    ELSE Some(ErrorInfoHeader(code.val, msg.val,
                                              [i \in 1..Len(stack) |-> stack[i].val]))

\* ErrorInfoHeader::from_header_map on the values the map holds for the header
from_header_map(values) == ErrorInfoHeader_decode(values)

\* ---- the calls ----

MaxHdrStrLen == 2

MaxHdrStack == 2

\* characters of the messages: newline, the double quote, the backslash, a, e acute
HdrChars == {10, 34, 92, 97, 233}

SeqsUpTo(S, n) == UNION {[1..k -> S] : k \in 0..n}

HdrStrings == SeqsUpTo(HdrChars, MaxHdrStrLen)

\* stack frames: "0: a", a backslash followed by n, and a character beyond Latin-1
HdrFrames == {<<48, 58, 32, 97>>, <<92, 110>>, <<12953>>}

HdrCodes == {0, 7, 1003}

HdrInfos ==
    {ErrorInfoHeader(code, msg, stack) :
        code \in HdrCodes, msg \in HdrStrings, stack \in SeqsUpTo(HdrFrames, MaxHdrStack)}

\* bytes of the header values a peer may send: 1, the backslash, n, and 0xff
RawBytes == {49, 92, 110, 255}

RawValues == SeqsUpTo(RawBytes, MaxHdrStrLen)

\* what the map may hold for the header when a peer has filled it: nothing, one
\* value, two values, or a code and a msg that decode followed by one more value
RawValueLists ==
    SeqsUpTo(RawValues, 2) \cup {<<ToDecimal(1), <<49>>, v>> : v \in RawValues}

HdrNoCall == [op |-> "none", info |-> None, values |-> <<>>, ret |-> None]

\* let mut header = HeaderMap::new();
HdrInit ==
    /\ hdr_pc = "new"
    /\ hdr_values = <<>>
    /\ hdr_last = HdrNoCall

\* header.typed_insert(info)
HdrTypedInsert ==
    /\ hdr_pc = "new"
    /\ \E info \in HdrInfos :
          /\ hdr_values' = ErrorInfoHeader_encode(info)
          /\ hdr_last' = [op |-> "typed_insert", info |-> Some(info),
                          values |-> ErrorInfoHeader_encode(info), ret |-> None]
    /\ hdr_pc' = "filled"
    /\ UNCHANGED hdr_others

\* the map arrives with header values written by a peer
HdrReceive ==
    /\ hdr_pc = "new"
    /\ \E values \in RawValueLists :
          /\ hdr_values' = values
          /\ hdr_last' = [op |-> "receive", info |-> None, values |-> values, ret |-> None]
    /\ hdr_pc' = "filled"
    /\ UNCHANGED hdr_others

\* ErrorInfoHeader::from_header_map(&header)
HdrFromHeaderMap ==
    /\ hdr_pc \in {"new", "filled"}
    /\ hdr_last' = [op |-> "from_header_map", info |-> hdr_last.info,
                    values |-> hdr_values, ret |-> from_header_map(hdr_values)]
    /\ hdr_pc' = "decoded"
    /\ UNCHANGED hdr_values
    /\ UNCHANGED hdr_others

\* StatusCode::from_u32: the status code with this number, if there is one
StatusCode_from_u32(value) ==
    CASE value = 0    -> Some("StatusCode::Success")
      [] value = 1000 -> Some("StatusCode::Unknown")
      [] value = 1002 -> Some("StatusCode::Unexpected")
      [] value = 1003 -> Some("StatusCode::Internal")
      [] value = 1004 -> Some("StatusCode::InvalidArguments")
      [] value = 1005 -> Some("StatusCode::Cancelled")
      [] OTHER        -> None

\* Option::unwrap_or
unwrap_or(opt, default) == IF IsSome(opt) THEN Unwrap(opt) ELSE default

\* a tonic::Status: its code, its message and the header values of its metadata
Status(code, message, metadata) ==
    [code |-> code, message |-> message, metadata |-> metadata]

\* format!("Failed to decode error info header, tonic message: {}", e.message())
FailedToDecode(message) ==
    [text |-> "Failed to decode error info header, tonic message: ", arg |-> message]

\* a message taken over as it is
Verbatim(msg) == [text |-> "", arg |-> msg]

\* the arms of the match in From<Status> for the client Error
client_Error_match(info, e) ==
    IF IsSome(info)
    THEN [variant |-> "Server",
          code |-> unwrap_or(StatusCode_from_u32(Unwrap(info).code), "StatusCode::Unknown"),
          msg |-> Verbatim(Unwrap(info).msg)]
    ELSE [variant |-> "Server", code |-> "StatusCode::Internal",
          msg |-> FailedToDecode(e.message)]

\* impl From<Status> for Error (client)
client_Error_from_Status(e) == client_Error_match(from_header_map(e.metadata), e)

\* the arms of the match in From<Status> for the meta-client Error
meta_client_Error_match(info, e) ==
    IF IsSome(info)
    THEN [variant |-> "MetaServer",
          code |-> unwrap_or(StatusCode_from_u32(Unwrap(info).code), "StatusCode::Internal"),
          msg |-> Verbatim(Unwrap(info).msg),
          stack_errors |-> Unwrap(info).stack_errors,
          tonic_code |-> e.code]
    ELSE [variant |-> "MetaServer", code |-> "StatusCode::Internal",
          msg |-> FailedToDecode(e.message),
          stack_errors |-> <<>>,
          tonic_code |-> e.code]

\* impl From<Status> for Error (meta-client)
meta_client_Error_from_Status(e) ==
    meta_client_Error_match(from_header_map(e.metadata), e)

\* the codes and the messages of the statuses converted
HdrStatusCodes == {"Code::Internal", "Code::Unavailable"}

StatusMessages == {<<97>>}

\* let err: Error = status.into()   (client)
HdrClientErrorFrom ==
    /\ hdr_pc \in {"new", "filled"}
    /\ \E code \in HdrStatusCodes, message \in StatusMessages :
          hdr_last' = [op |-> "client_from_status", info |-> hdr_last.info,
                       values |-> hdr_values,
                       ret |-> client_Error_from_Status(Status(code, message, hdr_values))]
    /\ hdr_pc' = "converted"
    /\ UNCHANGED hdr_values
    /\ UNCHANGED hdr_others

\* let err: Error = status.into()   (meta-client)
HdrMetaClientErrorFrom ==
    /\ hdr_pc \in {"new", "filled"}
    /\ \E code \in HdrStatusCodes, message \in StatusMessages :
          hdr_last' = [op |-> "meta_client_from_status", info |-> hdr_last.info,
                       values |-> hdr_values,
                       ret |-> meta_client_Error_from_Status(Status(code, message, hdr_values))]
    /\ hdr_pc' = "converted"
    /\ UNCHANGED hdr_values
    /\ UNCHANGED hdr_others

HdrNext ==
    \/ HdrTypedInsert
    \/ HdrReceive
    \/ HdrFromHeaderMap
    \/ HdrClientErrorFrom
    \/ HdrMetaClientErrorFrom

\* no header map is in use
HdrIdle == HdrInit

(***************************************************************************)
(* FlowNodeManager                                                         *)
(***************************************************************************)

\* the greatest TaskId used
MaxTaskId == 2

\* the number of create_task calls made at most
MaxFnmSteps == 2

TaskIds == 1..MaxTaskId

\* the table names queries refer to
FnmTableNames == {<<"numbers">>, <<"missing">>}

\* the ids of the source tables
FnmTableIds == {1, 2}

\* FlowNodeManager: the keys of task_states, source_sender and sink_receiver,
\* and the table names flownode_context maps to a global id
FlowNodeManager(task_states, source_sender, sink_receiver, flownode_context) ==
    [task_states |-> task_states, source_sender |-> source_sender,
     sink_receiver |-> sink_receiver, flownode_context |-> flownode_context]

\* sql_to_flow_plan: the plan of a query over one table, which the context must know
sql_to_flow_plan(flownode_context, sql) ==
    IF sql \in flownode_context
    THEN [ok |-> TRUE, plan |-> [used |-> {sql}], err |-> ""]
    ELSE [ok |-> FALSE, plan |-> [used |-> {}], err |-> "TableNotFound"]

\* the result of create_task: the value returned, whether the call panicked,
\* the manager afterwards and the number of plans translated so far
CreateTaskResult(ret, panicked, mgr, translated) ==
    [ret |-> ret, panicked |-> panicked, mgr |-> mgr, translated |-> translated]

create_task_translates_first(mgr, translated, task_id, create_if_not_exist, sql) ==
    LET flow_plan == sql_to_flow_plan(mgr.flownode_context, sql)
    IN  IF ~flow_plan.ok
        THEN CreateTaskResult([ok |-> FALSE, val |-> None, err |-> flow_plan.err],
                              FALSE, mgr, translated + 1)
        ELSE IF create_if_not_exist /\ task_id \in mgr.task_states
        THEN CreateTaskResult([ok |-> TRUE, val |-> None, err |-> ""], FALSE, mgr, translated + 1)
        ELSE CreateTaskResult([ok |-> FALSE, val |-> None, err |-> ""], TRUE, mgr, translated + 1)

\* FlowNodeManager::create_task
create_task(mgr, translated, task_id, create_if_not_exist, sql) ==
    IF create_if_not_exist /\ task_id \in mgr.task_states
    THEN \* return Ok(None)
         CreateTaskResult([ok |-> TRUE, val |-> None, err |-> ""], FALSE, mgr, translated)
    ELSE LET flow_plan == sql_to_flow_plan(mgr.flownode_context, sql)
         IN  IF ~flow_plan.ok
             THEN \* the ? after sql_to_flow_plan(..).await
                  CreateTaskResult([ok |-> FALSE, val |-> None, err |-> flow_plan.err],
                                   FALSE, mgr, translated + 1)
             ELSE \* todo!()
                  CreateTaskResult([ok |-> FALSE, val |-> None, err |-> ""],
                                   TRUE, mgr, translated + 1)

FnmNoCall ==
    [op |-> "none", task_id |-> 0, create_if_not_exist |-> FALSE, sql |-> <<>>,
     ret |-> [ok |-> TRUE, val |-> None, err |-> ""],
     pre |-> FlowNodeManager({}, {}, {}, {}), pre_translated |-> 0]

\* the fields of the manager are public: its owner builds it with the tasks,
\* senders, receivers and context it has
FnmInit ==
    /\ fnm \in {FlowNodeManager(t, s, r, c) :
                  t \in SUBSET TaskIds, s \in SUBSET FnmTableIds,
                  r \in SUBSET FnmTableNames, c \in SUBSET FnmTableNames}
    /\ fnm_last = FnmNoCall
    /\ fnm_translated = 0
    /\ fnm_panicked = FALSE
    /\ fnm_steps = 0

\* manager.create_task(task_id, output_table_id, create_if_not_exist, .., sql, ..).await
FnmCreateTask ==
    /\ ~fnm_panicked
    /\ fnm_steps < MaxFnmSteps
    /\ \E task_id \in TaskIds, create_if_not_exist \in BOOLEAN, sql \in FnmTableNames :
          LET r == create_task(fnm, fnm_translated, task_id, create_if_not_exist, sql)
          IN  /\ fnm' = r.mgr
              /\ fnm_translated' = r.translated
              /\ fnm_panicked' = r.panicked
              /\ fnm_last' = [op |-> "create_task", task_id |-> task_id,
                              create_if_not_exist |-> create_if_not_exist, sql |-> sql,
                              ret |-> r.ret, pre |-> fnm, pre_translated |-> fnm_translated]
    /\ fnm_steps' = fnm_steps + 1
    /\ UNCHANGED fnm_others

FnmNext == FnmCreateTask

\* no FlowNodeManager is in use
FnmIdle ==
    /\ fnm = FlowNodeManager({}, {}, {}, {})
    /\ fnm_last = FnmNoCall
    /\ fnm_translated = 0
    /\ fnm_panicked = FALSE
    /\ fnm_steps = 0

(***************************************************************************)
(* CreateFlowProcedure::collect_source_tables  (create_flow/metadata.rs)   *)
(***************************************************************************)

\* the greatest version of a table
MaxVersion == 1

\* the number of steps made at most
MaxCfpSteps == 3

\* the names of the tables a flow reads from, and the name of its sink table
CfpSourceNames == {"public.a", "public.b"}

CfpSinkName == "public.sink"

CfpTableNames == CfpSourceNames \cup {CfpSinkName}

\* the id a table name is registered with, when it is registered
CfpTableIdOf(name) ==
    CASE name = "public.a" -> 1
      [] name = "public.b" -> 2
      [] OTHER -> 3

CfpTableIds == {CfpTableIdOf(name) : name \in CfpTableNames}

\* TableNameManager::get: the id of the table registered under the name
table_name_manager_get(names, name) ==
    IF name \in names THEN Some(CfpTableIdOf(name)) ELSE None

\* TableNameManager::batch_get: one Option per key, in the order of the keys
table_name_manager_batch_get(names, keys) ==
    [i \in 1..Len(keys) |-> table_name_manager_get(names, keys[i])]

\* TableInfoManager::get: the info stored for the table id
table_info_manager_get(infos, table_id) == MapGet(infos, table_id)

\* TableInfoManager::batch_get: the infos found, keyed by table id
table_info_manager_batch_get(infos, table_ids) ==
    [id \in {table_ids[i] : i \in 1..Len(table_ids)} \cap DOMAIN infos |-> infos[id]]

\* Err(TableNotFound { table_name })
CfpTableNotFound(table_name) == [ok |-> FALSE, err |-> "TableNotFound", table_name |-> table_name]

CfpOk == [ok |-> TRUE, err |-> "", table_name |-> ""]

\* the least index of a name that has no id
FirstUnresolved(ids) == FirstKey({i \in 1..Len(ids) : ~IsSome(ids[i])})

\* CreateFlowProcedure::collect_source_tables: the data after the call and the
\* result. The three fields are assigned after the last `?`.
collect_source_tables(data, names, infos) ==
    LET source_table_ids == table_name_manager_batch_get(names, data.task.source_table_names)
        resolved == [i \in 1..Len(source_table_ids) |->
                        IF IsSome(source_table_ids[i]) THEN Unwrap(source_table_ids[i]) ELSE 0]
        sink_table_id == table_name_manager_get(names, data.task.sink_table_name)
        sink_info == IF IsSome(sink_table_id)
                     THEN table_info_manager_get(infos, Unwrap(sink_table_id)) ELSE None
    IN  IF \E i \in 1..Len(source_table_ids) : ~IsSome(source_table_ids[i])
        THEN [data |-> data,
              ret |-> CfpTableNotFound(data.task.source_table_names[FirstUnresolved(source_table_ids)])]
        ELSE IF ~IsSome(sink_table_id) \/ ~IsSome(sink_info)
        THEN [data |-> data, ret |-> CfpTableNotFound(data.task.sink_table_name)]
        ELSE [data |-> [data EXCEPT
                          !.source_table_ids = resolved,
                          !.source_versions = table_info_manager_batch_get(infos, resolved),
                          !.sink_version = Some(Unwrap(sink_info))],
              ret |-> CfpOk]

\* the source_table_names of the tasks
CfpSourceLists == {<<>>, <<"public.a">>, <<"public.a", "public.b">>, <<"public.b", "public.a">>}

\* CreateFlowData of a procedure that has collected nothing yet
CreateFlowData(source_table_names) ==
    [task |-> [source_table_names |-> source_table_names, sink_table_name |-> CfpSinkName],
     source_table_ids |-> <<>>, source_versions |-> EmptyMap, sink_version |-> None]

\* the versions of the tables that have an info
CfpInfoMaps == UNION {[ids -> 0..MaxVersion] : ids \in SUBSET CfpTableIds}

CfpNoCall == [op |-> "none", ret |-> CfpOk, pre |-> CreateFlowData(<<>>)]

\* a procedure for a task, and the table metadata as it is at that time. The
\* names and the infos are read by separate requests, and other procedures
\* write them in between: a name may be registered while its info is absent.
CfpInit ==
    /\ cfp_data \in {CreateFlowData(names) : names \in CfpSourceLists}
    /\ cfp_names \in SUBSET CfpTableNames
    /\ cfp_infos \in CfpInfoMaps
    /\ cfp_last = CfpNoCall
    /\ cfp_steps = 0

\* procedure.collect_source_tables().await
CfpCollectSourceTables ==
    /\ cfp_steps < MaxCfpSteps
    /\ LET r == collect_source_tables(cfp_data, cfp_names, cfp_infos)
       IN  /\ cfp_data' = r.data
           /\ cfp_last' = [op |-> "collect_source_tables", ret |-> r.ret, pre |-> cfp_data]
    /\ cfp_steps' = cfp_steps + 1
    /\ UNCHANGED <<cfp_names, cfp_infos>>
    /\ UNCHANGED cfp_others

\* another procedure drops a table: its name and its info go
CfpDropTable ==
    /\ cfp_steps < MaxCfpSteps
    /\ \E name \in cfp_names :
          /\ cfp_names' = cfp_names \ {name}
          /\ cfp_infos' = [id \in DOMAIN cfp_infos \ {CfpTableIdOf(name)} |-> cfp_infos[id]]
    /\ cfp_last' = [cfp_last EXCEPT !.op = "drop_table"]
    /\ cfp_steps' = cfp_steps + 1
    /\ UNCHANGED cfp_data
    /\ UNCHANGED cfp_others

\* another procedure alters a table: its info gets the next version
CfpAlterTable ==
    /\ cfp_steps < MaxCfpSteps
    /\ \E id \in DOMAIN cfp_infos :
          /\ cfp_infos[id] < MaxVersion
          /\ cfp_infos' = [cfp_infos EXCEPT ![id] = @ + 1]
    /\ cfp_last' = [cfp_last EXCEPT !.op = "alter_table"]
    /\ cfp_steps' = cfp_steps + 1
    /\ UNCHANGED <<cfp_data, cfp_names>>
    /\ UNCHANGED cfp_others

CfpNext == CfpCollectSourceTables \/ CfpDropTable \/ CfpAlterTable

\* no CreateFlowProcedure is in use
CfpIdle ==
    /\ cfp_data = CreateFlowData(<<>>)
    /\ cfp_names = {}
    /\ cfp_infos = EmptyMap
    /\ cfp_last = CfpNoCall
    /\ cfp_steps = 0

(***************************************************************************)
(* The specifications                                                      *)
(***************************************************************************)

InitDiffMap == DmInit /\ EkvIdle /\ TfsIdle /\ AccIdle /\ SrcIdle /\ SinkIdle /\ CliIdle /\ HdrIdle /\ FnmIdle /\ CfpIdle

SpecDiffMap == InitDiffMap /\ [][DmNext]_vars

InitExpiring == EkvInit /\ DmIdle /\ TfsIdle /\ AccIdle /\ SrcIdle /\ SinkIdle /\ CliIdle /\ HdrIdle /\ FnmIdle /\ CfpIdle

SpecExpiring == InitExpiring /\ [][EkvNext]_vars

InitTemporal == TfsInit /\ DmIdle /\ EkvIdle /\ AccIdle /\ SrcIdle /\ SinkIdle /\ CliIdle /\ HdrIdle /\ FnmIdle /\ CfpIdle

SpecTemporal == InitTemporal /\ [][TfsNext]_vars

InitAccum == AccInit /\ DmIdle /\ EkvIdle /\ TfsIdle /\ SrcIdle /\ SinkIdle /\ CliIdle /\ HdrIdle /\ FnmIdle /\ CfpIdle

SpecAccum == InitAccum /\ [][AccNext]_vars

InitSource == SrcInit /\ DmIdle /\ EkvIdle /\ TfsIdle /\ AccIdle /\ SinkIdle /\ CliIdle /\ HdrIdle /\ FnmIdle /\ CfpIdle

SpecSource == InitSource /\ [][SrcNext]_vars

InitSink == SinkInit /\ DmIdle /\ EkvIdle /\ TfsIdle /\ AccIdle /\ SrcIdle /\ CliIdle /\ HdrIdle /\ FnmIdle /\ CfpIdle

SpecSink == InitSink /\ [][SinkNext]_vars

InitClient == CliInit /\ DmIdle /\ EkvIdle /\ TfsIdle /\ AccIdle /\ SrcIdle /\ SinkIdle /\ HdrIdle /\ FnmIdle /\ CfpIdle

SpecClient == InitClient /\ [][CliNext]_vars

InitHeader == HdrInit /\ EkvIdle /\ TfsIdle /\ AccIdle /\ SrcIdle /\ SinkIdle /\ CliIdle /\ DmIdle /\ FnmIdle /\ CfpIdle

SpecHeader == InitHeader /\ [][HdrNext]_vars

InitFlowNode == FnmInit /\ EkvIdle /\ TfsIdle /\ AccIdle /\ SrcIdle /\ SinkIdle /\ CliIdle /\ HdrIdle /\ DmIdle /\ CfpIdle

SpecFlowNode == InitFlowNode /\ [][FnmNext]_vars

InitCreateFlow == CfpInit /\ EkvIdle /\ TfsIdle /\ AccIdle /\ SrcIdle /\ SinkIdle /\ CliIdle /\ HdrIdle /\ FnmIdle /\ DmIdle

SpecCreateFlow == InitCreateFlow /\ [][CfpNext]_vars

(***************************************************************************)
(* DiffMap: properties                                                     *)
(***************************************************************************)

\* the sum of the diffs of the records out[i..] that are about the pair kv
RECURSIVE DiffSumFrom(_, _, _)
DiffSumFrom(out, i, kv) ==
    IF i > Len(out) THEN 0
    ELSE (IF out[i][1] = kv THEN out[i][3] ELSE 0) + DiffSumFrom(out, i + 1, kv)

\* C2: right after each gen_diff the diffs emitted so far sum, per (key, value), to 1
\* if the map holds key -> value and to 0 otherwise, and every -1 record of the
\* returned vector is about a pair whose running sum just before that record is 1.
C2_EmittedDiffsTrackMap ==
    dm_last.op = "gen_diff" =>
        /\ \A kv \in DmKeys \X DmVals :
              dm_emitted[kv] = IF MapGet(dmap.inner, kv[1]) = Some(kv[2]) THEN 1 ELSE 0
        /\ \A i \in 1..Len(dm_last.out) :
              dm_last.out[i][3] = -1 =>
                  dm_emitted[dm_last.out[i][1]]
                      - DiffSumFrom(dm_last.out, i, dm_last.out[i][1]) = 1

\* C2 witness: a gen_diff has returned a retraction (-1) of a pair inserted earlier
C2_Witness ==
    /\ dm_last.op = "gen_diff"
    /\ \E i \in 1..Len(dm_last.out) : dm_last.out[i][3] = -1
    /\ dmap.inner # EmptyMap

\* what C3 says gen_diff(tick) returns: for the edited keys ks in order, the
\* retraction of the value held at the previous gen_diff, then the insertion of
\* the value held now
RECURSIVE FirstOldLatestNew(_, _, _, _)
FirstOldLatestNew(prev, now, ks, tick) ==
    IF ks = <<>> THEN <<>>
    ELSE LET k == Head(ks)
         IN (IF k \in DOMAIN prev THEN << <<<<k, prev[k]>>, tick, -1>> >> ELSE <<>>)
            \o (IF k \in DOMAIN now THEN << <<<<k, now[k]>>, tick, 1>> >> ELSE <<>>)
            \o FirstOldLatestNew(prev, now, Tail(ks), tick)

\* C3: gen_diff(t) returns, for each key edited since the previous gen_diff, in
\* ascending key order, ((k, old), t, -1) if k held old at the previous gen_diff and
\* then ((k, new), t, +1) if k holds new now; unedited keys yield no record.
C3_GenDiffFirstOldLatestNew ==
    dm_last.op = "gen_diff" =>
        dm_last.out = FirstOldLatestNew(dm_last.was_prev, dmap.inner,
                                        RowsAscending(dm_last.was_edited), dm_last.tick)

\* C3 witness: a gen_diff returned the retract/insert pair of a key that held a value
\* at the previous gen_diff, while another key held then and holds now a value and
\* was not edited
C3_Witness ==
    /\ dm_last.op = "gen_diff"
    /\ \E k \in dm_last.was_edited :
          /\ k \in DOMAIN dm_last.was_prev
          /\ k \in DOMAIN dmap.inner
          /\ dmap.inner[k] # dm_last.was_prev[k]
    /\ \E k \in DOMAIN dmap.inner : k \notin dm_last.was_edited
    /\ Len(dm_last.out) = 2

\* C4: a gen_diff issued immediately after another gen_diff returns an empty
\* vector, and the transition buffer is empty after every gen_diff.
C4_GenDiffIdempotent ==
    dm_last.op = "gen_diff" =>
        /\ dmap.delta = EmptyMap
        /\ dm_last.prev_op = "gen_diff" => dm_last.out = <<>>

\* C4 witness: a gen_diff right after a gen_diff, on a map that holds entries
C4_Witness ==
    /\ dm_last.op = "gen_diff"
    /\ dm_last.prev_op = "gen_diff"
    /\ dmap.inner # EmptyMap

(***************************************************************************)
(* ExpiringKeyValueState: properties                                       *)
(***************************************************************************)

\* the last call was made on a state with a TTL configured
EkvLastHadTtl == IsSome(ekv_last.pre.key_expiration_duration)

\* current - TTL of the last call
EkvLastExpireTime == ekv_last.current - Unwrap(ekv_last.pre.key_expiration_duration)

\* the keys the state held before the last call
EkvKeysBefore == DOMAIN ekv_last.pre.inner.inner

\* C5: with a TTL configured, insert and remove fail with LateDataDiscarded exactly
\* when event_time(k) < current - TTL, with late_by = (current - TTL) - event_time(k);
\* a key at event_time(k) = current - TTL is accepted, and a successful insert
\* returns the value the key held before (None if it was absent).
C5_LateDataExactlyBelowExpireTime ==
    (ekv_last.op \in {"insert", "remove"} /\ EkvLastHadTtl) =>
        LET ts == extract_event_ts(ekv_last.pre, ekv_last.key)
        IN /\ ~ekv_last.ret.ok <=> ts < EkvLastExpireTime
           /\ ~ekv_last.ret.ok =>
                 /\ ekv_last.ret.err = "LateDataDiscarded"
                 /\ ekv_last.ret.late_by = EkvLastExpireTime - ts
           /\ ts = EkvLastExpireTime => ekv_last.ret.ok
           /\ (ekv_last.op = "insert" /\ ekv_last.ret.ok) =>
                 ekv_last.ret.val = MapGet(ekv_last.pre.inner.inner, ekv_last.key)

\* C5 witness: an insert of a key exactly at current - TTL (current > TTL) was
\* accepted and returned the value the key held before
C5_Witness ==
    /\ ekv_last.op = "insert"
    /\ EkvLastHadTtl
    /\ ekv_last.current > Unwrap(ekv_last.pre.key_expiration_duration)
    /\ extract_event_ts(ekv_last.pre, ekv_last.key) = EkvLastExpireTime
    /\ ekv_last.ret.ok
    /\ IsSome(ekv_last.ret.val)
    /\ Unwrap(ekv_last.ret.val) # ekv_last.value

\* C6 as stated: trunc_expired(current) removes every stored key whose event time
\* is <= current - TTL.
C6_Original_TruncRemovesAtOrBelowExpireTime ==
    (ekv_last.op = "trunc_expired" /\ EkvLastHadTtl) =>
        \A k \in EkvKeysBefore :
            extract_event_ts(ekv_last.pre, k) <= EkvLastExpireTime
                => ExpiringKeyValueState_get(ekv, k) = None

\* C6 amended: trunc_expired(current) removes every stored key whose event time is
\* strictly less than current - TTL, from the map and from the time index; a stored
\* key whose event time equals current - TTL stays in the state.
C6_TruncRemovesStrictlyBelowExpireTime ==
    (ekv_last.op = "trunc_expired" /\ EkvLastHadTtl) =>
        \A k \in EkvKeysBefore :
            LET ts == extract_event_ts(ekv_last.pre, k)
            IN /\ ts < EkvLastExpireTime =>
                     /\ ExpiringKeyValueState_get(ekv, k) = None
                     /\ \A t \in DOMAIN ekv.time2key : k \notin ekv.time2key[t]
               /\ ts = EkvLastExpireTime =>
                     ExpiringKeyValueState_get(ekv, k) = ExpiringKeyValueState_get(ekv_last.pre, k)

\* C6 witness: a trunc_expired removed a key below current - TTL and kept a key
\* exactly at current - TTL
C6_Witness ==
    /\ ekv_last.op = "trunc_expired"
    /\ EkvLastHadTtl
    /\ \E k \in EkvKeysBefore :
          /\ extract_event_ts(ekv_last.pre, k) < EkvLastExpireTime
          /\ ExpiringKeyValueState_get(ekv, k) = None
    /\ \E k \in EkvKeysBefore :
          /\ extract_event_ts(ekv_last.pre, k) = EkvLastExpireTime
          /\ IsSome(ExpiringKeyValueState_get(ekv, k))

\* C7: trunc_expired returns the number of keys it removed from the state, and it
\* removes no key that insert(current, ...) would still accept: every stored key
\* with event time >= current - TTL is still returned by get afterwards.
C7_TruncCountsRemovedKeepsLive ==
    ekv_last.op = "trunc_expired" =>
        /\ ekv_last.cnt = Cardinality(EkvKeysBefore \ DOMAIN ekv.inner.inner)
        /\ \A k \in EkvKeysBefore :
              (EkvLastHadTtl => extract_event_ts(ekv_last.pre, k) >= EkvLastExpireTime)
                  => /\ IsSome(ExpiringKeyValueState_get(ekv, k))
                     /\ ExpiringKeyValueState_get(ekv, k)
                            = ExpiringKeyValueState_get(ekv_last.pre, k)
                     /\ ExpiringKeyValueState_insert(ekv_last.pre, ekv_last.current, k,
                                                     Unwrap(ExpiringKeyValueState_get(ekv, k))).ret.ok

\* C7 witness: a trunc_expired removed the two keys of one expired bucket
C7_Witness ==
    /\ ekv_last.op = "trunc_expired"
    /\ ekv_last.cnt = 2
    /\ \E t \in DOMAIN ekv_last.pre.time2key :
          /\ Cardinality(ekv_last.pre.time2key[t]) = 2
          /\ t \notin DOMAIN ekv.time2key

\* C8: trunc_expired leaves the pending transition buffer of the inner DiffMap
\* unchanged, so a gen_diff issued right after it returns exactly the records it
\* would have returned had trunc_expired not been called.
C8_TruncLeavesDeltaUnchanged ==
    ekv_last.op = "trunc_expired" =>
        /\ ekv.inner.delta = ekv_last.pre.inner.delta
        /\ \A tick \in DmTicks :
              ExpiringKeyValueState_gen_diff(ekv, tick).out
                  = ExpiringKeyValueState_gen_diff(ekv_last.pre, tick).out

\* C8 witness: a trunc_expired removed a key whose insertion was still pending in
\* the transition buffer
C8_Witness ==
    /\ ekv_last.op = "trunc_expired"
    /\ ekv_last.cnt > 0
    /\ \E k \in DOMAIN ekv.inner.delta :
          /\ k \in EkvKeysBefore
          /\ k \notin DOMAIN ekv.inner.inner
          /\ IsSome(ekv.inner.delta[k][2])

(***************************************************************************)
(* TemporalFilterState: properties                                         *)
(***************************************************************************)

\* the (row, time, diff) entries the state held before the last call at times <= t
TfsStoredUntil(t) ==
    UNION {{<<row, x, tfs_last.pre.spine[x][row]>> : row \in DOMAIN tfs_last.pre.spine[x]}
           : x \in {y \in DOMAIN tfs_last.pre.spine : y <= t}}

\* the elements of a sequence
Elements(seq) == {seq[i] : i \in 1..Len(seq)}

\* C9: trunc_until_inclusive(t) returns exactly the stored (row, time, diff)
\* entries with time <= t, removes them from the state, and leaves every entry
\* with time > t in the state unchanged.
C9_TruncReturnsAndRemovesUntilInclusive ==
    tfs_last.op = "trunc_until_inclusive" =>
        /\ Elements(tfs_last.ret) = TfsStoredUntil(tfs_last.time)
        /\ Len(tfs_last.ret) = Cardinality(TfsStoredUntil(tfs_last.time))
        /\ \A x \in DOMAIN tfs.spine : x > tfs_last.time
        /\ \A x \in DOMAIN tfs_last.pre.spine :
              x > tfs_last.time =>
                  /\ x \in DOMAIN tfs.spine
                  /\ tfs.spine[x] = tfs_last.pre.spine[x]

\* C9 witness: a trunc_until_inclusive(t) returned an entry stored exactly at t
\* with a coalesced diff of 2, and an entry with a later time stayed in the state
C9_Witness ==
    /\ tfs_last.op = "trunc_until_inclusive"
    /\ \E e \in Elements(tfs_last.ret) : e[2] = tfs_last.time /\ e[3] = 2
    /\ \E x \in DOMAIN tfs.spine : tfs.spine[x] # EmptyMap

\* the entries of the buckets ts (in that order), each bucket's rows in the order
\* in which their entries were created by append_delta_row
RECURSIVE EntriesInAppendOrder(_, _, _)
EntriesInAppendOrder(spine, order, ts) ==
    IF ts = <<>> THEN <<>>
    ELSE LET t == Head(ts)
         IN BucketEntries(spine[t], order[t], t)
            \o EntriesInAppendOrder(spine, order, Tail(ts))

\* C10 as stated: the returned vector lists the buckets in ascending time order and,
\* within one bucket, the rows in the order in which they were first appended.
C10_Original_RowsInAppendOrder ==
    tfs_last.op = "trunc_until_inclusive" =>
        tfs_last.ret =
            EntriesInAppendOrder(tfs_last.pre.spine, tfs_last.was_order,
                IntsAscending({x \in DOMAIN tfs_last.pre.spine : x <= tfs_last.time}))

\* C10 amended: the returned vector lists the buckets in ascending time order and,
\* within one bucket, the rows in ascending Row order (the key order of the
\* bucket's BTreeMap), whatever the order in which they were appended.
C10_RowsInAscendingRowOrder ==
    tfs_last.op = "trunc_until_inclusive" =>
        \A i, j \in 1..Len(tfs_last.ret) :
            i < j =>
                \/ tfs_last.ret[i][2] < tfs_last.ret[j][2]
                \/ /\ tfs_last.ret[i][2] = tfs_last.ret[j][2]
                   /\ RowLess(tfs_last.ret[i][1], tfs_last.ret[j][1])

\* C10 witness: a trunc_until_inclusive returned two buckets, one of them with two
\* rows that had been appended in descending Row order
C10_Witness ==
    /\ tfs_last.op = "trunc_until_inclusive"
    /\ \E t \in DOMAIN tfs_last.was_order :
          /\ t <= tfs_last.time
          /\ Len(tfs_last.was_order[t]) = 2
          /\ RowLess(tfs_last.was_order[t][2], tfs_last.was_order[t][1])
    /\ \E i, j \in 1..Len(tfs_last.ret) : tfs_last.ret[i][2] < tfs_last.ret[j][2]

\* C11: the outputs of trunc_until_inclusive(t1), ..., trunc_until_inclusive(tn)
\* with t1 < ... < tn and no append in between, concatenated, are the output of
\* one trunc_until_inclusive(tn) on the contents the run started from, and the
\* remaining state is the same.
C11_SuccessiveTruncsEqualSingleTrunc ==
    tfs_run.n >= 1 =>
        trunc_until_inclusive(tfs_run.base, tfs_run.until) = [s |-> tfs, ret |-> tfs_run.out]

\* a run of two calls or more in which the last call returned something, an
\* earlier one did too, and something stays in the state
C11_Witness ==
    /\ tfs_run.n >= 2
    /\ tfs_last.ret # <<>>
    /\ Len(tfs_run.out) > Len(tfs_last.ret)
    /\ DOMAIN tfs.spine # {}

\* the diff the state holds for (time, row); 0 when it holds no entry
TfsStoredDiff(s, time, row) ==
    IF time \in DOMAIN s.spine /\ row \in DOMAIN s.spine[time] THEN s.spine[time][row] ELSE 0

\* C12: after any sequence of append_delta_row calls (with any diffs, 0 included)
\* the state holds for each (time, row) the sum of the diffs appended for it, it
\* holds no entry whose diff is zero, and trunc_until_inclusive returns no record
\* with diff 0.
C12_CoalescedNoZeroEntries ==
    /\ \A p \in TfsTimes \X TfsRows : TfsStoredDiff(tfs, p[1], p[2]) = tfs_sum[p]
    /\ \A t \in DOMAIN tfs.spine : \A row \in DOMAIN tfs.spine[t] : tfs.spine[t][row] # 0
    /\ tfs_last.op = "trunc_until_inclusive" =>
            \A i \in 1..Len(tfs_last.ret) : tfs_last.ret[i][3] # 0

(***************************************************************************)
(* Context::render_source: properties                                      *)
(***************************************************************************)

\* C13: every DiffRow handed off in one run has a timestamp <= the current time
\* read at the start of the run; an update received with a later timestamp is
\* buffered in the arrangement and not handed off in that run.
C13_HandsOffNothingLaterThanNow ==
    src_last.op = "run" =>
        /\ \A i \in 1..Len(src_last.all) : src_last.all[i][2] <= src_last.now
        /\ \A i \in 1..Len(src_last.pre_chan) :
              (src_last.pre_missed = 0 /\ src_last.pre_chan[i][2] > src_last.now) =>
                  \E j \in 1..Len(src_arr) : src_arr[j] = src_last.pre_chan[i]

C15_SendsEveryRowInBatchOrder ==
    sink_last.op = "run" =>
        /\ sink_last.sent = FlatMap(sink_last.data)
        /\ Len(sink_last.results) = Len(sink_last.sent)
        /\ \A i \in 1..Len(sink_last.sent) :
              sink_last.results[i] = (IF sink_last.live[i] THEN "Ok" ELSE "Err")

\* a run of two batches in which a send fails and a later one succeeds, made
\* after a run in which a send failed
C15_Witness ==
    /\ sink_last.op = "run"
    /\ sink_last.prev = "run with a failed send"
    /\ Len(sink_last.data) = 2
    /\ \E i, j \in 1..Len(sink_last.results) :
          i < j /\ sink_last.results[i] = "Err" /\ sink_last.results[j] = "Ok"

(***************************************************************************)
(* Accum: properties                                                       *)
(***************************************************************************)

\* C1: for every aggregate function accepted by new_accum and every sequence of
\* updates applied to new_accum(f), rebuilding the accumulator from its
\* into_state() succeeds, and the rebuilt accumulator has the same eval result
\* and the same into_state() as the accumulator it was rebuilt from.
C1_RoundTripPreservesEvalAndState ==
    (acc_last.op = "restore" /\ ~acc_last.pre_restored) =>
        /\ acc_last.ok
        /\ Accum_eval(acc, acc_fn) = Accum_eval(acc_last.pre, acc_fn)
        /\ Accum_into_state(acc) = Accum_into_state(acc_last.pre)

\* the sum of the diffs of the successful updates with the values of S
RECURSIVE SumOfDiffs(_)
SumOfDiffs(S) ==
    IF S = {} THEN 0
    ELSE LET v == CHOOSE x \in S : TRUE IN acc_sums[v] + SumOfDiffs(S \ {v})

\* the accumulator is the OrdValue of a min or max function
AccIsMinMax == acc.variant = "OrdValue" /\ (is_max(acc_fn) \/ is_min(acc_fn))

\* the value passes the type check of OrdValue::update on the accumulator `a`
OrdValueTypeMatches(a, value) == IsSome(a.val) => data_type(Unwrap(a.val)) = data_type(value)

\* C16: for a min or max function and any OrdValue accumulator, an update with
\* diff <= 0 and a value that passes the accumulator's type check fails with an
\* Internal error; so every successful update has a strictly positive diff and
\* non_nulls is the sum of these diffs.
C16_MinMaxRejectsNonPositiveDiff ==
    AccIsMinMax =>
        /\ (acc_last.op = "update" /\ acc_last.diff <= 0
                /\ OrdValueTypeMatches(acc_last.pre, acc_last.value)) =>
               (~acc_last.ok /\ acc_last.err = "Internal" /\ acc = acc_last.pre)
        /\ (acc_last.op = "update" /\ acc_last.ok) => acc_last.diff > 0
        /\ \A v \in AccValues : acc_sums[v] >= 0
        /\ acc.non_nulls = SumOfDiffs(AccValues)

\* an update with a non-positive diff and a value of the stored type is refused
\* by an accumulator that two updates have succeeded on
C16_Witness ==
    /\ AccIsMinMax
    /\ acc_last.op = "update" /\ acc_last.diff <= 0 /\ ~acc_last.ok
    /\ IsSome(acc.val) /\ data_type(Unwrap(acc.val)) = data_type(acc_last.value)
    /\ acc.non_nulls = 2

\* the greatest and the least value of a set of values of one type
GreatestOf(S) == CHOOSE m \in S : \A x \in S : ~ValueLess(m, x)

LeastOf(S) == CHOOSE m \in S : \A x \in S : ~ValueLess(x, m)

\* eval and into_state are those of a max (min) over the values updated so far
MinMaxOfSeen ==
    LET best == IF is_max(acc_fn) THEN GreatestOf(acc_seen) ELSE LeastOf(acc_seen)
    IN /\ Accum_eval(acc, acc_fn) = EvalOk(best)
       /\ Accum_into_state(acc) = <<best, Int64(SumOfDiffs(AccValues))>>

\* C17 as stated, for every Max* and Min* function, MaxBool and MinBool included:
\* after a non-empty sequence of successful updates eval is the greatest (least)
\* value updated and into_state is [that value, sum of diffs].
C17_Original_EveryMinMaxFunction ==
    ((is_max(acc_fn) \/ is_min(acc_fn)) /\ acc_seen # {}) => MinMaxOfSeen

\* C17: for the Max* and Min* functions served by the OrdValue accumulator (all
\* but MaxBool and MinBool), after a non-empty sequence of successful updates
\* eval is the greatest (least) value updated and into_state is [that value, sum
\* of diffs], whatever the order of the updates.
C17_OrdValueMinMaxOfValuesUpdated ==
    (AccIsMinMax /\ acc_seen # {}) => MinMaxOfSeen

\* three updates of two different values succeeded on a max or min accumulator,
\* and the last value updated is not the one it holds
C17_Witness ==
    /\ AccIsMinMax
    /\ Cardinality(acc_seen) >= 2
    /\ acc.non_nulls = 3
    /\ acc_last.op = "update" /\ acc_last.ok
    /\ Unwrap(acc.val) # acc_last.value

\* C18: in the Bool accumulator trues is the sum of the diffs of the successful
\* updates with true and falses that of the updates with false; eval(Any) and
\* eval(MaxBool) are trues > 0, eval(All) and eval(MinBool) are falses == 0, so
\* the empty accumulator gives Any = false and All = true.
C18_BoolCountsAndEval ==
    acc.variant = "Bool" =>
        /\ acc.trues = acc_sums[Boolean(TRUE)]
        /\ acc.falses = acc_sums[Boolean(FALSE)]
        /\ acc_fn \in {"Any", "MaxBool"} =>
              Accum_eval(acc, acc_fn) = EvalOk(Boolean(acc_sums[Boolean(TRUE)] > 0))
        /\ acc_fn \in {"All", "MinBool"} =>
              Accum_eval(acc, acc_fn) = EvalOk(Boolean(acc_sums[Boolean(FALSE)] = 0))
        /\ (acc_seen = {} /\ acc_fn = "Any") => Accum_eval(acc, acc_fn) = EvalOk(Boolean(FALSE))
        /\ (acc_seen = {} /\ acc_fn = "All") => Accum_eval(acc, acc_fn) = EvalOk(Boolean(TRUE))

\* insertions and a retraction: true was inserted and retracted again, false was
\* inserted, so Any is false although true has been seen
C18_Witness ==
    /\ acc.variant = "Bool" /\ acc_fn = "Any"
    /\ acc_seen = {Boolean(TRUE), Boolean(FALSE)}
    /\ acc_last.op = "update" /\ acc_last.ok /\ acc_last.diff = -1
    /\ acc.trues = 0 /\ acc.falses = 1
    /\ Accum_eval(acc, acc_fn) = EvalOk(Boolean(FALSE))

\* the sum of value * diff over the successful updates with the values of S
RECURSIVE SumOfProducts(_)
SumOfProducts(S) ==
    IF S = {} THEN 0
    ELSE LET v == CHOOSE x \in S : TRUE IN v.n * acc_sums[v] + SumOfProducts(S \ {v})

\* C19: in the SimpleNumber accumulator accum is the exact sum of value * diff
\* and non_nulls the sum of the diffs of the successful updates (insertions and
\* retractions); eval returns that sum, as an Int64 for SumInt16/32/64 and as a
\* UInt64 for SumUInt16/32/64.
C19_SimpleNumberEvalIsTheSum ==
    acc.variant = "SimpleNumber" =>
        /\ acc.accum = SumOfProducts(AccValues)
        /\ acc.non_nulls = SumOfDiffs(AccValues)
        /\ acc_fn \in SignedSumFuncs =>
              Accum_eval(acc, acc_fn) = EvalOk(Val("Int64", SumOfProducts(AccValues)))
        /\ acc_fn \in UnsignedSumFuncs =>
              Accum_eval(acc, acc_fn) = EvalOk(Val("UInt64", SumOfProducts(AccValues)))

\* the input type an aggregate function expects, as the TypeMismatch errors of
\* update name it (`expected`); Count takes values of any type
ExpectedType(aggr_fn) ==
    CASE aggr_fn \in BoolFuncs -> "Boolean"
      [] aggr_fn = "SumInt16" -> "Int16"
      [] aggr_fn = "SumInt32" -> "Int32"
      [] aggr_fn = "SumInt64" -> "Int64"
      [] aggr_fn = "SumUInt16" -> "UInt16"
      [] aggr_fn = "SumUInt32" -> "UInt32"
      [] aggr_fn = "SumUInt64" -> "UInt64"
      [] aggr_fn = "SumFloat32" -> "Float32"
      [] aggr_fn = "SumFloat64" -> "Float64"
      [] aggr_fn \in {"MaxInt32", "MinInt32"} -> "Int32"
      [] aggr_fn = "MaxFloat32" -> "Float32"
      [] aggr_fn = "MaxDateTime" -> "DateTime"
      [] OTHER -> "Any"

\* C20: for every accumulator variant and every function it supports, an update
\* with a value whose type is not the input type the function expects fails with
\* TypeMismatch.
C20_WrongInputTypeIsTypeMismatch ==
    (acc_last.op = "update" /\ ExpectedType(acc_fn) # "Any"
        /\ data_type(acc_last.value) # ExpectedType(acc_fn)) =>
            (~acc_last.ok /\ acc_last.err = "TypeMismatch")

\* the functions the update of a variant accepts
SupportedBy(variant) ==
    CASE variant = "Bool" -> BoolFuncs
      [] variant = "SimpleNumber" -> SimpleNumberFuncs
      [] variant = "Float" -> FloatFuncs
      [] OTHER -> {f \in AggregateFuncs : is_max(f) \/ is_min(f) \/ f = "Count"}

\* a function that is no max, no min, not Count and none of the functions the
\* Bool, SimpleNumber and Float variants list
UnsupportedFunc == "Unsupported"

\* C21: for every variant, update and eval called with a function outside the
\* variant's supported set fail with an Internal error, and new_accum and
\* try_into_accum fail with Internal for a function no variant supports.
C21_UnsupportedFunctionIsInternal ==
    /\ \A f \in AggregateFuncs \ SupportedBy(acc.variant) :
          /\ Accum_eval(acc, f) = EvalErr("Internal")
          /\ \A value \in AccValuesFor(acc_fn), diff \in AccDiffs :
                Accum_update(acc, f, value, diff) = AccErr(acc, "Internal")
    /\ new_accum(UnsupportedFunc) = AccErr(Null, "Internal")
    /\ try_into_accum(UnsupportedFunc, Accum_into_state(acc)) = AccErr(Null, "Internal")

\* the zero a Float accumulator evaluates to under aggr_fn
FloatZero(aggr_fn) ==
    FloatValue(IF aggr_fn = "SumFloat32" THEN "Float32" ELSE "Float64", Float("fin", 0))

\* C22: a Float accumulator rebuilt by try_into_accum from the into_state() of an
\* accumulator whose non_nulls is 0 has accum 0.0 and evaluates to 0.0.
C22_FloatRebuiltWithZeroNonNullsIsZero ==
    (acc_last.op = "restore" /\ acc_last.ok /\ acc.variant = "Float"
        /\ acc_last.pre.non_nulls = 0)
    => /\ acc.accum = Float("fin", 0)
       /\ Accum_eval(acc, acc_fn) = EvalOk(FloatZero(acc_fn))

\* two updates that cancel in non_nulls but not in accum, then the round trip
C22_Witness ==
    /\ acc_last.op = "restore" /\ acc_last.ok /\ acc.variant = "Float"
    /\ acc_last.pre.non_nulls = 0
    /\ acc_last.pre.accum # Float("fin", 0)
    /\ ~acc_last.pre_restored

\* C23: in every reachable state of a Float accumulator, with or without a round
\* trip, non_nulls == 0 implies that eval returns 0.0 and that the first element
\* of into_state() is 0.0.
C23_FloatZeroNonNullsIsZero ==
    (acc.variant = "Float" /\ acc.non_nulls = 0)
    => /\ Accum_eval(acc, acc_fn) = EvalOk(FloatZero(acc_fn))
       /\ Accum_into_state(acc)[1] = FloatValue("Float64", Float("fin", 0))

\* the number of values into_state() of a variant returns
StateLen(variant) == IF variant = "Float" THEN 5 ELSE 2

\* the types of the fields of a variant, in the order of its state list; the
\* first field of OrdValue is an Option<Value> and takes a value of any type
FieldTypes(variant) ==
    CASE variant = "Bool" -> <<"Int64", "Int64">>
      [] variant = "SimpleNumber" -> <<"Decimal128", "Int64">>
      [] variant = "Float" -> <<"Float64", "Int64", "Int64", "Int64", "Int64">>
      [] OTHER -> <<"Any", "Int64">>

FieldsMatch(variant, state) ==
    \A i \in 1..Len(state) :
        FieldTypes(variant)[i] = "Any" \/ data_type(state[i]) = FieldTypes(variant)[i]

\* C24 as stated: into_state() has a fixed length per variant, and try_into_accum
\* with a state list of another length, or with an element whose type does not
\* match the variant's field, fails with an Internal error.
C24_Original_MalformedStateIsInternal ==
    /\ Len(Accum_into_state(acc)) = StateLen(acc.variant)
    /\ (acc_last.op = "try_into_accum"
            /\ (Len(acc_last.state) # StateLen(acc.variant)
                    \/ ~FieldsMatch(acc.variant, acc_last.state)))
        => (~acc_last.ok /\ acc_last.err = "Internal")

\* C24: into_state() has a fixed length per variant (Bool 2, SimpleNumber 2,
\* Float 5, OrdValue 2); try_into_accum with a state list of another length fails
\* with an Internal error, with a list of the right length and an element whose
\* type does not match its field it fails with a TryFromValue error, and it
\* succeeds otherwise.
C24_StateLengthAndTryIntoAccumErrors ==
    /\ Len(Accum_into_state(acc)) = StateLen(acc.variant)
    /\ acc_last.op \in {"try_into_accum", "restore"} =>
         IF Len(acc_last.state) # StateLen(acc.variant)
         THEN ~acc_last.ok /\ acc_last.err = "Internal"
         ELSE IF ~FieldsMatch(acc.variant, acc_last.state)
              THEN ~acc_last.ok /\ acc_last.err = "TryFromValue"
              ELSE acc_last.ok

\* a state list of the right length with a Null in place of a counter was refused
C24_Witness ==
    /\ acc_last.op = "try_into_accum"
    /\ Len(acc_last.state) = StateLen(acc.variant)
    /\ ~FieldsMatch(acc.variant, acc_last.state)
    /\ ~acc_last.ok /\ acc_last.err = "TryFromValue"
    /\ acc # new_accum(acc_fn).acc

\* Accumulator::update_batch: the updates of value_diffs applied in order, up to
\* the first one that fails; the updates made before it stay in the accumulator
RECURSIVE update_batch(_, _, _)
update_batch(a, aggr_fn, value_diffs) ==
    IF value_diffs = <<>> THEN AccOk(a)
    ELSE LET r == Accum_update(a, aggr_fn, Head(value_diffs).value, Head(value_diffs).diff)
         IN IF r.ok THEN update_batch(r.acc, aggr_fn, Tail(value_diffs)) ELSE r

\* the sequences that hold the elements of S in another order
Reorderings(S) == {[i \in 1..Len(S) |-> S[p[i]]] : p \in Permutations(1..Len(S))}

\* C25: for every supported function f, every sequence S of updates with strictly
\* positive diffs that all succeed on a fresh accumulator, and every permutation
\* S' of S, the updates of S' also succeed on a fresh accumulator and give the
\* same eval(f). S is the update that was made and two more.
C25_PermutedUpdatesSameEval ==
    (acc_steps = 1 /\ acc_last.op = "update" /\ acc_last.ok /\ acc_last.diff > 0) =>
        \A v1, v2 \in AccValuesFor(acc_fn) : \A d1, d2 \in {d \in AccDiffs : d > 0} :
            LET S == <<[value |-> acc_last.value, diff |-> acc_last.diff],
                       [value |-> v1, diff |-> d1], [value |-> v2, diff |-> d2]>>
                fresh == new_accum(acc_fn).acc
                r == update_batch(fresh, acc_fn, S)
            IN r.ok =>
                 \A T \in Reorderings(S) :
                    LET rt == update_batch(fresh, acc_fn, T)
                    IN rt.ok /\ Accum_eval(rt.acc, acc_fn) = Accum_eval(r.acc, acc_fn)

\* C26: for the Count function (an OrdValue accumulator), after any sequence of
\* updates with arbitrary values and signed diffs every update has succeeded, the
\* stored value is unset, eval returns Null and into_state() returns
\* [Null, sum of all diffs].
C26_CountKeepsNoValue ==
    (acc_fn = "Count" /\ ~acc_restored) =>
        /\ acc_last.op = "update" => acc_last.ok
        /\ acc.val = None
        /\ Accum_eval(acc, acc_fn) = EvalOk(Null)
        /\ Accum_into_state(acc) = <<Null, Int64(SumOfDiffs(AccValues))>>

\* Count after an insertion and a retraction of values of two types
C26_Witness ==
    /\ acc_fn = "Count" /\ ~acc_restored
    /\ acc_last.op = "update" /\ acc_last.diff = -1
    /\ \E v, w \in acc_seen : data_type(v) # data_type(w) /\ acc_sums[v] = 1
    /\ acc.non_nulls = 0

\* the times at which the contributions appended for some row and not yet
\* truncated add up to a diff other than zero
TfsPendingTimes == {t \in TfsTimes : \E row \in TfsRows : tfs_sum[<<t, row>>] # 0}

\* C27: TemporalFilterState.schd_at(now) returns the earliest timestamp at which a
\* (row, diff) contribution is still pending, and None when no contribution is
\* pending, also after all contributions cancelled to zero or were truncated.
C27_SchdAtIsEarliestPending ==
    \A now \in 0..MaxTfsTime :
        TemporalFilterState_schd_at(tfs, now)
            = IF TfsPendingTimes = {} THEN None ELSE Some(FirstKey(TfsPendingTimes))

\* the keys the state holds
EkvHeld(s) == DOMAIN s.inner.inner

\* C28: after any sequence of insert, remove and trunc_expired calls on a state
\* with a TTL, schd_at(now) is the earliest event time among the keys the state
\* holds plus the TTL, and None when the state holds no key.
C28_SchdAtIsEarliestHeldPlusTtl ==
    IsSome(ekv.key_expiration_duration) =>
        \A now \in EkvTimes :
            ExpiringKeyValueState_schd_at(ekv, now)
                = IF EkvHeld(ekv) = {} THEN None
                  ELSE Some(FirstKey({extract_event_ts(ekv, k) : k \in EkvHeld(ekv)})
                                + Unwrap(ekv.key_expiration_duration))

\* the keys trunc_expired(cur_time) removes from the contents s
TruncRemoved(s, cur_time) == EkvHeld(s) \ EkvHeld(trunc_expired(s, cur_time).s)

\* C29: for any contents and t1 <= t2, the keys removed by trunc_expired(t1) are
\* among the keys removed by trunc_expired(t2) on the same contents. t1 or t2 is
\* the time of the call that was made.
C29_TruncExpiredIsMonotone ==
    ekv_last.op = "trunc_expired" =>
        /\ EkvKeysBefore \ EkvHeld(ekv) = TruncRemoved(ekv_last.pre, ekv_last.current)
        /\ \A t \in EkvTimes :
              /\ t <= ekv_last.current =>
                    TruncRemoved(ekv_last.pre, t) \subseteq EkvKeysBefore \ EkvHeld(ekv)
              /\ ekv_last.current <= t =>
                    EkvKeysBefore \ EkvHeld(ekv) \subseteq TruncRemoved(ekv_last.pre, t)

\* a call that removed a key, on contents of which a later time removes more
C29_Witness ==
    /\ ekv_last.op = "trunc_expired"
    /\ EkvKeysBefore \ EkvHeld(ekv) # {}
    /\ \E t \in EkvTimes :
          /\ ekv_last.current < t
          /\ TruncRemoved(ekv_last.pre, t) # EkvKeysBefore \ EkvHeld(ekv)

(***************************************************************************)
(* client Error: properties                                                *)
(***************************************************************************)

\* C30: should_retry(e) is true if and only if e is a RegionServer or FlowServer
\* error whose transport code is one of Cancelled, DeadlineExceeded, Unavailable,
\* Unknown; it is false for every other variant and every other code.
C30_ShouldRetryIffRegionOrFlowServerTransient ==
    cli_last.op = "should_retry" =>
        (cli_last.ret <=>
            /\ cli_last.err.variant \in {"RegionServer", "FlowServer"}
            /\ cli_last.err.code \in {"Code::Cancelled", "Code::DeadlineExceeded",
                                       "Code::Unavailable", "Code::Unknown"})

(***************************************************************************)
(* ErrorInfoHeader: properties                                             *)
(***************************************************************************)

\* C31: for every ErrorInfoHeader (code, msg with non-ASCII and control
\* characters, any list of stack frames), encoding it into header values (the
\* code, the escaped msg, one escaped value per stack frame in order) and
\* decoding those values yields an ErrorInfoHeader equal to the original.
C31_EncodeDecodeRoundTrip ==
    /\ hdr_last.op = "typed_insert" =>
          LET info == Unwrap(hdr_last.info)
          IN /\ Len(hdr_values) = 2 + Len(info.stack_errors)
             /\ hdr_values[1] = ToDecimal(info.code)
             /\ hdr_values[2] = escape_default(info.msg)
             /\ \A i \in 1..Len(info.stack_errors) :
                   hdr_values[i + 2] = escape_default(info.stack_errors[i])
    /\ (hdr_last.op = "from_header_map" /\ IsSome(hdr_last.info)) =>
          hdr_last.ret = hdr_last.info

\* a header with a code of four digits, a msg with a control and a non-ASCII
\* character and two different stack frames was decoded
C31_Witness ==
    /\ hdr_last.op = "from_header_map" /\ IsSome(hdr_last.info)
    /\ IsSome(hdr_last.ret)
    /\ LET info == Unwrap(hdr_last.info)
       IN /\ info.code = 1003
          /\ info.msg = <<10, 233>>
          /\ Len(info.stack_errors) = 2
          /\ info.stack_errors[1] # info.stack_errors[2]

\* the header value is the text of a u32
ParsesAsU32(value) == to_str(value).ok /\ from_str_radix(value, 10).ok

\* the header value unescapes
Unescapes(value) == unescape(from_utf8_lossy(value)).ok

\* C32: decoding fails (from_header_map returns None) whenever the code value or
\* the msg value is absent, the code value does not parse as a u32, or
\* unescaping the msg or a stack-frame value fails, and in no other case; with
\* only a code and a msg it succeeds with an empty stack.
C32_DecodeFailsExactlyOnMalformedValues ==
    hdr_last.op = "from_header_map" =>
        LET values == hdr_last.values
        IN /\ hdr_last.ret = None <=>
                \/ Len(values) < 2
                \/ ~ParsesAsU32(values[1])
                \/ \E i \in 2..Len(values) : ~Unescapes(values[i])
           /\ (Len(values) = 2 /\ ParsesAsU32(values[1]) /\ Unescapes(values[2])) =>
                /\ IsSome(hdr_last.ret)
                /\ Unwrap(hdr_last.ret).stack_errors = <<>>

\* a code and a msg that decode, followed by a stack frame that does not unescape
C32_Witness ==
    /\ hdr_last.op = "from_header_map"
    /\ Len(hdr_last.values) = 3
    /\ ParsesAsU32(hdr_last.values[1]) /\ Unescapes(hdr_last.values[2])
    /\ ~Unescapes(hdr_last.values[3])
    /\ hdr_last.ret = None

\* the header of the last conversion decodes, but to a number that is no status code
HdrCodeIsUnknown ==
    /\ IsSome(from_header_map(hdr_last.values))
    /\ ~IsSome(StatusCode_from_u32(Unwrap(from_header_map(hdr_last.values)).code))

\* the frames carried by an error (a client Server error has no field for them)
StackFramesOf(err) == IF err.variant = "MetaServer" THEN err.stack_errors ELSE <<>>

\* C33: an error made from a status (client and meta-client) carries
\* StatusCode::Unknown when the header decodes to a number that is no known
\* status code, and StatusCode::Internal with no stack frames when the header
\* is missing or does not decode.
C33_ErrorFromStatusCodes ==
    hdr_last.op \in {"client_from_status", "meta_client_from_status"} =>
        /\ HdrCodeIsUnknown => hdr_last.ret.code = "StatusCode::Unknown"
        /\ ~IsSome(from_header_map(hdr_last.values)) =>
              /\ hdr_last.ret.code = "StatusCode::Internal"
              /\ StackFramesOf(hdr_last.ret) = <<>>

\* updating a with (value, diff) and updating the accumulator rebuilt from
\* a.into_state() with it succeed together, and then give the same state list
SameUnderUpdate(a, aggr_fn, value, diff) ==
    LET rebuilt == try_into_accum(aggr_fn, Accum_into_state(a))
        direct == Accum_update(a, aggr_fn, value, diff)
        after == Accum_update(rebuilt.acc, aggr_fn, value, diff)
    IN  /\ rebuilt.ok
        /\ after.ok = direct.ok
        /\ direct.ok => Accum_into_state(after.acc) = Accum_into_state(direct.acc)

\* C35: for Bool, SimpleNumber and OrdValue accumulators, the empty one
\* included, the accumulator rebuilt from into_state() behaves as the original
\* under a further update: the update succeeds exactly when it succeeds on the
\* original, and both then have the same into_state().
C35_RebuiltAccumulatorUpdatesAlike ==
    acc.variant \in {"Bool", "SimpleNumber", "OrdValue"} =>
        \A value \in AccValuesFor(acc_fn), diff \in AccDiffs :
            SameUnderUpdate(acc, acc_fn, value, diff)

\* the keys of the bucket of time t in the time index (none when there is no bucket)
EkvBucket(s, t) == IF t \in DOMAIN s.time2key THEN s.time2key[t] ELSE {}

\* every key is held exactly when it is in the bucket of its own event time,
\* and it is in no other bucket
EkvIndexAgreesWithMap(s) ==
    \A k \in EkvKeys :
        /\ k \in EkvHeld(s) <=> k \in EkvBucket(s, extract_event_ts(s, k))
        /\ \A t \in DOMAIN s.time2key :
              t # extract_event_ts(s, k) => k \notin s.time2key[t]

\* C36: in every reachable ExpiringKeyValueState the time index and the map
\* agree: a key is held iff it is in the bucket of its own event time and in no
\* other bucket, and no bucket of the time index is empty.
C36_TimeIndexAgreesWithMap ==
    /\ EkvIndexAgreesWithMap(ekv)
    /\ \A t \in DOMAIN ekv.time2key : ekv.time2key[t] # {}

\* the pairs (value, diff) given to an accumulator made for aggr_fn
AccPairs(aggr_fn) ==
    {[value |-> v, diff |-> d] : v \in AccValuesFor(aggr_fn), d \in AccDiffs}

\* update_batch(value_diffs) on a fails at the i-th pair: the pairs before it
\* succeed, the i-th fails, and the batch returns its error with the
\* accumulator as the pairs before it left it
BatchFailsAt(a, aggr_fn, value_diffs, i) ==
    LET before == update_batch(a, aggr_fn, SubSeq(value_diffs, 1, i - 1))
        r == update_batch(a, aggr_fn, value_diffs)
    IN  /\ before.ok
        /\ ~Accum_update(before.acc, aggr_fn, value_diffs[i].value, value_diffs[i].diff).ok
        /\ ~r.ok
        /\ r.err \in {"Internal", "TypeMismatch"}
        /\ r.acc = before.acc

\* the update that was made last, as a pair of a batch
AccLastPair == [value |-> acc_last.value, diff |-> acc_last.diff]

\* C37: an update that fails (Internal or TypeMismatch) leaves the accumulator
\* as it was, for every variant; so an update_batch that fails at its i-th pair
\* leaves the accumulator as the first i-1 pairs made it. The batches are the
\* update that was made followed by one more pair, while one more call can be
\* made.
C37_FailedUpdateLeavesAccumulator ==
    acc_last.op = "update" =>
        /\ ~acc_last.ok =>
              /\ acc_last.err \in {"Internal", "TypeMismatch"}
              /\ acc = acc_last.pre
        /\ acc_steps < MaxAccSteps =>
            \A p2 \in AccPairs(acc_fn) :
              LET value_diffs == <<AccLastPair, p2>>
                  r == update_batch(acc_last.pre, acc_fn, value_diffs)
              IN  /\ r.ok \/ \E i \in 1..2 : BatchFailsAt(acc_last.pre, acc_fn, value_diffs, i)
                  /\ ~acc_last.ok => ~r.ok /\ r.acc = acc
                  /\ (acc_last.ok /\ ~r.ok) => r.acc = acc

\* a min/max accumulator that holds a value refused a retraction, and a batch
\* on it fails at its second pair after the first pair changed it
C37_Witness ==
    /\ acc_last.op = "update" /\ ~acc_last.ok /\ acc_last.err = "Internal"
    /\ AccIsMinMax /\ acc.non_nulls > 0
    /\ \E p1, p2 \in AccPairs(acc_fn) :
          /\ BatchFailsAt(acc, acc_fn, <<p1, p2>>, 2)
          /\ update_batch(acc, acc_fn, <<p1>>).acc # acc

\* the last call was an insert or a remove that failed with LateDataDiscarded
EkvLastWasLate ==
    /\ ekv_last.op \in {"insert", "remove"}
    /\ ~ekv_last.ret.ok
    /\ ekv_last.ret.err = "LateDataDiscarded"

\* C38: an insert or remove that fails with LateDataDiscarded leaves the whole
\* state unchanged (map, time index and delta), so get, schd_at and the next
\* gen_diff give what they gave before the call.
C38_LateCallLeavesState ==
    EkvLastWasLate =>
        /\ ekv = ekv_last.pre
        /\ \A k \in EkvKeys :
              ExpiringKeyValueState_get(ekv, k) = ExpiringKeyValueState_get(ekv_last.pre, k)
        /\ \A now \in EkvTimes :
              ExpiringKeyValueState_schd_at(ekv, now)
                  = ExpiringKeyValueState_schd_at(ekv_last.pre, now)
        /\ \A tick \in DmTicks :
              ExpiringKeyValueState_gen_diff(ekv, tick)
                  = ExpiringKeyValueState_gen_diff(ekv_last.pre, tick)

\* a late remove of a key that is not held and whose bucket does not exist,
\* on a state with a held key and a pending delta
C38_Witness ==
    /\ EkvLastWasLate
    /\ ekv_last.op = "remove"
    /\ extract_event_ts(ekv, ekv_last.key) \notin DOMAIN ekv.time2key
    /\ EkvHeld(ekv) # {}
    /\ DOMAIN ekv.inner.delta # {}

\* C39: a Lagged error on the broadcast receiver of the source is a soft error:
\* the run that observes the lag goes on draining, so every message still
\* buffered for the receiver is handed off in that run (and the subgraph keeps
\* working in later runs).
C39_LaggedRunDrainsReceiver ==
    (src_last.op = "run" /\ src_last.pre_missed > 0) =>
        /\ src_chan = <<>>
        /\ \E n \in 0..Len(src_last.all) :
              SubSeq(src_last.all, n + 1, Len(src_last.all)) = src_last.pre_chan

(***************************************************************************)
(* FlowNodeManager: properties                                             *)
(***************************************************************************)

\* C34: create_task with create_if_not_exist = true and a task_id that is
\* already in task_states returns Ok(None) and changes nothing: task_states,
\* source_sender, sink_receiver and the flow-node context are as before and
\* no plan is translated.
C34_CreateExistingTaskIsNoOp ==
    (/\ fnm_last.op = "create_task"
     /\ fnm_last.create_if_not_exist
     /\ fnm_last.task_id \in fnm_last.pre.task_states) =>
        /\ fnm_last.ret = [ok |-> TRUE, val |-> None, err |-> ""]
        /\ ~fnm_panicked
        /\ fnm = fnm_last.pre
        /\ fnm_translated = fnm_last.pre_translated

\* an existing task was created again with create_if_not_exist, for a query
\* that would translate and for one that would not
C34_Witness ==
    /\ fnm_last.op = "create_task"
    /\ fnm_last.create_if_not_exist
    /\ fnm_last.task_id \in fnm_last.pre.task_states
    /\ fnm_last.sql \notin fnm.flownode_context
    /\ fnm.source_sender # {}

(***************************************************************************)
(* CreateFlowProcedure: properties                                         *)
(***************************************************************************)

\* the table has an id and an info
CfpResolves(name) ==
    /\ name \in cfp_names
    /\ CfpTableIdOf(name) \in DOMAIN cfp_infos

\* the source table names and the sink table name of the task that do not resolve
CfpUnresolved ==
    {name \in CfpTableNames :
        /\ \/ name = cfp_data.task.sink_table_name
           \/ \E i \in 1..Len(cfp_data.task.source_table_names) :
                 cfp_data.task.source_table_names[i] = name
        /\ ~CfpResolves(name)}

\* source_table_ids, source_versions and sink_version are as before the call
CfpCollectedUnchanged ==
    /\ cfp_data.source_table_ids = cfp_last.pre.source_table_ids
    /\ cfp_data.source_versions = cfp_last.pre.source_versions
    /\ cfp_data.sink_version = cfp_last.pre.sink_version

\* on success source_table_ids lists the ids in the order of source_table_names
CfpIdsInNameOrder ==
    cfp_data.source_table_ids
        = [i \in 1..Len(cfp_data.task.source_table_names) |->
              CfpTableIdOf(cfp_data.task.source_table_names[i])]

\* C40: collect_source_tables is all-or-nothing: if any source table name or
\* the sink table name does not resolve to a table (id or info), it fails with
\* TableNotFound naming that table and leaves source_table_ids, source_versions
\* and sink_version unchanged; on success source_table_ids lists the ids in the
\* order of source_table_names.
C40_CollectSourceTablesAllOrNothing ==
    cfp_last.op = "collect_source_tables" =>
        /\ CfpUnresolved # {} =>
              /\ ~cfp_last.ret.ok
              /\ cfp_last.ret.err = "TableNotFound"
              /\ cfp_last.ret.table_name \in CfpUnresolved
              /\ CfpCollectedUnchanged
        /\ cfp_last.ret.ok => CfpIdsInNameOrder

====
